---- MODULE Spec2Model ----
(***************************************************************************)
(* Model of the 1D cellular-automaton core of andrewvorobyev/simulations:  *)
(* the rule engine (createRule, applyRule, computeNextGeneration,          *)
(* runSimulation), the start-condition generators of the catalog and the   *)
(* pan/zoom state of the WebGL Renderer.                                   *)
(*                                                                         *)
(* Several specifications share the module:                                 *)
(*   SpecRule : createRule / applyRule / computeNextGeneration             *)
(*   SpecRun  : runSimulation on a heap of caller-visible arrays           *)
(*   SpecGen  : the start-condition generators                             *)
(*   SpecView : the Renderer's view state and input handlers               *)
(*   SpecConstruct : the Renderer from before its constructor runs         *)
(*   SpecCatalog : the catalog of simulations and getSimulation            *)
(*   SpecWrap : createRule on rule numbers of 256 and more                 *)
(*   SpecApp  : the page's CellularAutomataApp: select, inputs, Run, timer *)
(*   SpecLife : the GameOfLife class: tick, reset, setSpawnChance          *)
(* Each keeps the variables of the others at their initial value.          *)
(***************************************************************************)
EXTENDS Integers, Sequences, FiniteSets, TLC

VARIABLES
    \* ---- rule engine (SpecRule) ----
    ruleNumber,   \* the number handed to createRule
    rule,         \* the Rule object, NoRule before createRule ran
    applied,      \* last applyRule call: [left, center, right, result]
    nextGen,      \* last computeNextGeneration call: [currentRow, nextRow]
    \* ---- runSimulation (SpecRun) ----
    heap,         \* array objects: reference (1..Len) -> boolean row
    callerRow,    \* the reference the caller holds and passes as initialRow
    grid,         \* value returned by the last runSimulation: references
    calls,        \* history of runSimulation calls, values at return time
    nOps,         \* number of caller operations performed
    \* ---- start conditions (SpecGen) ----
    startCondition, \* name of the start condition last generated
    genWidth,     \* the width it was asked for
    genRow,       \* the array it returned
    genWrites,    \* the indexed writes row[idx] = val it performed, in order
    \* ---- Renderer (SpecView) ----
    env,          \* the page: canvas.getBoundingClientRect(), devicePixelRatio
    canvasSize,   \* canvas.width, canvas.height (device pixels)
    gridWidth,    \* Renderer.gridWidth
    gridHeight,   \* Renderer.gridHeight
    texture,      \* Renderer.texture: NoTexture (null) or the texture object
    view,         \* Renderer.view: offsetX, offsetY, scale (exact fractions)
    isDragging,   \* Renderer.isDragging
    lastMouseX,   \* Renderer.lastMouseX
    lastMouseY,   \* Renderer.lastMouseY
    cursor,       \* canvas.style.cursor
    frame,        \* what the last render() put on the canvas
    lastCall,     \* the last handler run: its name, render() and callback counts
    nEvents,      \* number of handlers run
    canvasListeners, \* listeners registered on the canvas: <<type, handler>>
    windowListeners, \* listeners registered on window: <<type, handler>>
    glObjects,    \* the WebGL objects the Renderer created and has not deleted
    destroyed,    \* destroy() has returned
    platform,     \* what the browser gives the constructor: a WebGL context,
                  \* compiled shaders, a linked program
    thrown,       \* the Error the constructor threw, or None
    renderer,     \* what new Renderer(...) gave its caller: "none" or "built"
    dragOrigin,   \* history: the pointer and the offsets at the last pointer
                  \* down, None once a zoom or centerView has moved the view
    \* ---- catalog (SpecCatalog) ----
    lookups,      \* the getSimulation calls made: [id, result], in order
    \* ---- CellularAutomataApp (SpecApp) ----
    currentSimulation, \* this.currentSimulation: a catalog entry, None for null
    simTitle,     \* textContent of #sim-title
    simDescription, \* textContent of #sim-description
    stepsInput,   \* value of #steps-input, a sequence of characters
    widthInput,   \* value of #width-input, a sequence of characters
    appGridWidth, \* this.gridWidth of the app
    currentGrid,  \* this.currentGrid: what the grid was computed from, its size
    runBtn,       \* #run-btn: disabled, textContent
    timers,       \* the setTimeout callbacks not yet run, in order: the
                  \* steps each captured, and (history) what was selected
                  \* when it was set
    gridInfo,     \* textContent of #grid-info: width, height, zoom in tenths
    lastTask,     \* history: the last callback run: what was selected at its
                  \* trigger, what it handed on, how it ended
    lastLoaded,   \* history: the id last handed to loadSimulation
    appOps,       \* number of select changes, input edits and run triggers
    \* ---- GameOfLife (SpecLife) ----
    lifeWidth,    \* GameOfLife.width
    lifeHeight,   \* GameOfLife.height
    lifeDepth,    \* GameOfLife.depth: a number or NaN
    volume,       \* GameOfLife.volume: the layers, each a grid of rows
    generation,   \* GameOfLife.generation
    spawnChance,  \* GameOfLife.spawnChance, in hundredths
    lifeCall,     \* history: the last method called and the Error it threw
    lifeOps       \* number of methods called

ruleVars == <<ruleNumber, rule, applied, nextGen>>
runVars  == <<heap, callerRow, grid, calls, nOps>>
genVars  == <<startCondition, genWidth, genRow, genWrites>>
viewVars == <<env, canvasSize, gridWidth, gridHeight, texture, view, isDragging,
              lastMouseX, lastMouseY, cursor, frame, lastCall, nEvents,
              canvasListeners, windowListeners, glObjects, destroyed,
              platform, thrown, renderer, dragOrigin>>
constructionVars == <<platform, thrown, renderer>>
catalogVars == <<lookups>>
appVars  == <<currentSimulation, simTitle, simDescription, stepsInput, widthInput,
              appGridWidth, currentGrid, runBtn, timers, gridInfo, lastTask,
              lastLoaded, appOps>>
lifeVars == <<lifeWidth, lifeHeight, lifeDepth, volume, generation, spawnChance,
              lifeCall, lifeOps>>
vars     == <<ruleVars, runVars, genVars, viewVars, catalogVars, appVars, lifeVars>>

\* the variables of the other specifications
outsideRule == <<runVars, genVars, viewVars, catalogVars, appVars, lifeVars>>
outsideRun  == <<genVars, viewVars, catalogVars, appVars, lifeVars>>
outsideGen  == <<ruleVars, runVars, viewVars, catalogVars, appVars, lifeVars>>
outsideView == <<ruleVars, runVars, genVars, catalogVars, appVars, lifeVars>>
outsideCatalog == <<ruleVars, runVars, genVars, viewVars, appVars, lifeVars>>
outsideApp  == <<ruleVars, runVars, genVars, catalogVars, lifeVars>>
outsideLife == <<ruleVars, runVars, genVars, viewVars, catalogVars, appVars>>

----------------------------------------------------------------------------
(* Bounds *)

\* widest row given to the engine
MaxRowWidth == 3
\* largest step count given to runSimulation
MaxSteps == 2
\* number of caller operations (calls, mutations, copies) in one behaviour
MaxOps == 3
\* number of Renderer handlers run in one behaviour
MaxEvents == 3
\* number of getSimulation calls in one behaviour
MaxLookups == 2
\* changes of the simulation select in one behaviour
MaxSelects == 1
\* edits of the steps and width inputs in one behaviour
MaxEdits == 1
\* run triggers (Run clicks, Enter keys) in one behaviour
MaxRuns == 2
\* largest width and height of a GameOfLife
MaxLifeSize == 2
\* largest depth of a GameOfLife
MaxLifeDepth == 2
\* number of GameOfLife methods called in one behaviour
MaxLifeOps == 3

\* every width 0..MaxSmallWidth is given to the start conditions
MaxSmallWidth == 21
\* Math.random() is a periodic stream of draws of at most this period
MaxRandomPeriod == 2

RuleNumbers == 0..255

Rows == UNION {[1..w -> BOOLEAN] : w \in 0..MaxRowWidth}

None == [none |-> TRUE]

\* NaN, and a number, as values that can be told apart
NaN == [nan |-> TRUE]
Num(n) == [num |-> n]
NoRule == [number |-> -1]

----------------------------------------------------------------------------
(* Rule engine *)

\* (x >> i) & 1 of JavaScript, for x within the int32 range
ShiftRightAnd1(x, i) == (x \div (2 ^ i)) % 2

\* a mutant of createRule: the bits are read most-significant first
createRuleReversed(n) ==
    [number  |-> n,
     name    |-> <<"Rule", n>>,
     pattern |-> [i \in 0..7 |-> ShiftRightAnd1(n, 7 - i) = 1]]

\* pattern[i] = ((ruleNumber >> i) & 1) === 1 for i = 0..7
createRule(n) ==
    [number  |-> n,
     name    |-> <<"Rule", n>>,
     pattern |-> [i \in 0..7 |-> ShiftRightAnd1(n, i) = 1]]

\* index = (left ? 4 : 0) + (center ? 2 : 0) + (right ? 1 : 0)
applyRule(r, left, center, right) ==
    LET index == (IF left THEN 4 ELSE 0) + (IF center THEN 2 ELSE 0)
                 + (IF right THEN 1 ELSE 0)
    IN  r.pattern[index]

\* a mutant of computeNextGeneration: the row wraps around at its ends
computeNextGenerationWrap(r, currentRow) ==
    LET width == Len(currentRow)
    IN  [i \in 1..width |->
            LET left   == currentRow[IF i > 1 THEN i - 1 ELSE width]
                center == currentRow[i]
                right  == currentRow[IF i < width THEN i + 1 ELSE 1]
            IN  applyRule(r, left, center, right)]

\* Rows are sequences: JavaScript index i is position i + 1.
computeNextGeneration(r, currentRow) ==
    LET width == Len(currentRow)
    IN  [i \in 1..width |->
            LET left   == IF i > 1 THEN currentRow[i - 1] ELSE FALSE
                center == currentRow[i]
                right  == IF i < width THEN currentRow[i + 1] ELSE FALSE
            IN  applyRule(r, left, center, right)]

----------------------------------------------------------------------------
(* SpecRule: the pure functions of the rule engine applied to bounded inputs *)

RunInit ==
    /\ heap = <<>>
    /\ callerRow = 0
    /\ grid = <<>>
    /\ calls = <<>>
    /\ nOps = 0

RuleInit0 ==
    /\ ruleNumber = 0
    /\ rule = NoRule
    /\ applied = None
    /\ nextGen = None

GenInit ==
    /\ startCondition = "none"
    /\ genWidth = 0
    /\ genRow = [length |-> 0, elems |-> <<>>]
    /\ genWrites = <<>>

\* no Renderer has been constructed
ViewAbsent ==
    /\ env = None
    /\ canvasSize = None
    /\ gridWidth = 0
    /\ gridHeight = 0
    /\ texture = None
    /\ view = None
    /\ isDragging = FALSE
    /\ lastMouseX = 0
    /\ lastMouseY = 0
    /\ cursor = ""
    /\ frame = None
    /\ lastCall = None
    /\ nEvents = 0
    /\ canvasListeners = {}
    /\ windowListeners = {}
    /\ glObjects = {}
    /\ destroyed = FALSE
    /\ platform = None
    /\ thrown = None
    /\ renderer = "none"
    /\ dragOrigin = None

\* getSimulation has not been called
CatalogInit == lookups = <<>>

\* no GameOfLife constructed
LifeAbsent ==
    /\ lifeWidth = 0
    /\ lifeHeight = 0
    /\ lifeDepth = Num(0)
    /\ volume = <<>>
    /\ generation = 0
    /\ spawnChance = 0
    /\ lifeCall = None
    /\ lifeOps = 0

\* no grid computed yet: currentGrid = []
NoGrid == [rows |-> 0]

\* no CellularAutomataApp on the page
AppAbsent ==
    /\ currentSimulation = None
    /\ simTitle = ""
    /\ simDescription = ""
    /\ stepsInput = <<>>
    /\ widthInput = <<>>
    /\ appGridWidth = 1001
    /\ currentGrid = NoGrid
    /\ runBtn = [disabled |-> FALSE, textContent |-> ""]
    /\ timers = <<>>
    /\ gridInfo = None
    /\ lastTask = None
    /\ lastLoaded = None
    /\ appOps = [selects |-> 0, edits |-> 0, runs |-> 0]

InitRule ==
    /\ ruleNumber \in RuleNumbers
    /\ rule = NoRule
    /\ applied = None
    /\ nextGen = None
    /\ RunInit
    /\ GenInit
    /\ ViewAbsent
    /\ CatalogInit
    /\ AppAbsent
    /\ LifeAbsent

CreateRule ==
    /\ rule = NoRule
    /\ rule' = createRule(ruleNumber)
    /\ UNCHANGED <<ruleNumber, applied, nextGen, outsideRule>>

ApplyRule(left, center, right) ==
    /\ rule # NoRule
    /\ applied' = [left |-> left, center |-> center, right |-> right,
                   result |-> applyRule(rule, left, center, right)]
    /\ UNCHANGED <<ruleNumber, rule, nextGen, outsideRule>>

ComputeNextGeneration(row) ==
    /\ rule # NoRule
    /\ nextGen' = [currentRow |-> row,
                   nextRow |-> computeNextGeneration(rule, row)]
    /\ UNCHANGED <<ruleNumber, rule, applied, outsideRule>>

NextRule ==
    \/ CreateRule
    \/ \E l \in BOOLEAN, c \in BOOLEAN, r \in BOOLEAN : ApplyRule(l, c, r)
    \/ \E row \in Rows : ComputeNextGeneration(row)

SpecRule == InitRule /\ [][NextRule]_vars

\* bit k of n, read off the binary expansion of n
BitOf(n, k) == (n % (2 ^ (k + 1))) >= 2 ^ k

BoolToBit(b) == IF b THEN 1 ELSE 0

\* C1: for every rule number n in 0..255 and every neighbourhood
\* (left, center, right), applyRule(createRule(n), left, center, right) is
\* bit 4*left + 2*center + right of n; createRule(n).pattern has exactly 8
\* entries; createRule(110).pattern is [0,1,1,1,0,1,1,0] at indices 0..7.
C1_RuleBits ==
    rule # NoRule =>
        /\ rule.number = ruleNumber
        /\ DOMAIN rule.pattern = 0..7
        /\ Cardinality(DOMAIN rule.pattern) = 8
        /\ \A l \in BOOLEAN, c \in BOOLEAN, r \in BOOLEAN :
              applyRule(rule, l, c, r)
                 = BitOf(ruleNumber, 4 * BoolToBit(l) + 2 * BoolToBit(c) + BoolToBit(r))
        /\ applied # None =>
              applied.result
                 = BitOf(ruleNumber, 4 * BoolToBit(applied.left)
                                     + 2 * BoolToBit(applied.center)
                                     + BoolToBit(applied.right))
        /\ ruleNumber = 110 =>
              rule.pattern = [i \in 0..7 |->
                  <<FALSE, TRUE, TRUE, TRUE, FALSE, TRUE, TRUE, FALSE>>[i + 1]]

\* rule 110 applied to the neighbourhood (1,1,0), index 6, gives true
C1_Witness ==
    /\ rule # NoRule
    /\ ruleNumber = 110
    /\ applied # None
    /\ applied.left /\ applied.center /\ ~applied.right
    /\ applied.result = TRUE

\* the row with a dead cell added beyond each end
Padded(row) == <<FALSE>> \o row \o <<FALSE>>

\* C2: computeNextGeneration(rule, row) has the length of row and its cell i
\* is applyRule(rule, L, row[i], R) with L and R the neighbours, false beyond
\* the ends of the row (no wraparound); for the row [true] the result is
\* [applyRule(rule, false, true, false)].
C2_FixedDeadBoundary ==
    nextGen # None =>
        LET row == nextGen.currentRow
            out == nextGen.nextRow
            p   == Padded(row)
        IN  /\ Len(out) = Len(row)
            /\ DOMAIN out = 1..Len(row)
            /\ \A i \in 1..Len(row) :
                  out[i] = rule.pattern[4 * BoolToBit(p[i]) + 2 * BoolToBit(p[i + 1])
                                        + BoolToBit(p[i + 2])]
            /\ row = <<TRUE>> => out = <<applyRule(rule, FALSE, TRUE, FALSE)>>

\* rule 110 on the width-1 row [true]: the neighbourhood is (0,1,0), index 2
C2_Witness ==
    /\ nextGen # None
    /\ ruleNumber = 110
    /\ nextGen.currentRow = <<TRUE>>
    /\ nextGen.nextRow = <<TRUE>>

----------------------------------------------------------------------------
(* SpecRun: runSimulation.  JavaScript arrays are objects: the heap maps a *)
(* reference to the array's current contents, and a grid is a sequence of  *)
(* references.                                                             *)

\* rule numbers of the entries of the catalog
CatalogRuleNumbers == {110, 30, 90, 184, 54, 150, 22}

\* a mutant of RunLoop: currentRow is never advanced
RECURSIVE RunLoopStale(_, _, _, _, _, _)
RunLoopStale(h, r, g, currentRow, i, steps) ==
    IF i < steps
    THEN LET h2  == Append(h, computeNextGeneration(r, h[currentRow]))
             ref == Len(h2)
         IN  RunLoopStale(h2, r, Append(g, ref), currentRow, i + 1, steps)
    ELSE [heap |-> h, grid |-> g]

\* for (let i = 0; i < steps; i++) { currentRow = computeNextGeneration(...);
\* grid.push(currentRow) }: each generation is a new array object
RECURSIVE RunLoop(_, _, _, _, _, _)
RunLoop(h, r, g, currentRow, i, steps) ==
    IF i < steps
    THEN LET h2  == Append(h, computeNextGeneration(r, h[currentRow]))
             ref == Len(h2)
         IN  RunLoop(h2, r, Append(g, ref), ref, i + 1, steps)
    ELSE [heap |-> h, grid |-> g]

\* a mutant of runSimulation: the initial row is not put in the grid
runSimulationNoInitial(h, r, initialRow, steps) ==
    RunLoop(h, r, <<>>, initialRow, 0, steps)

\* a mutant of runSimulation: the grid is a module-level array that the
\* previous call's rows are still in
runSimulationSharedGrid(h, r, initialRow, steps) ==
    RunLoop(h, r, Append(grid, initialRow), initialRow, 0, steps)

\* const grid = [initialRow]; let currentRow = initialRow; loop; return grid
runSimulation(h, r, initialRow, steps) ==
    RunLoop(h, r, <<initialRow>>, initialRow, 0, steps)

\* the cells of a grid, read through the heap
GridContents(h, g) == [t \in 1..Len(g) |-> h[g[t]]]

InitRun ==
    /\ ruleNumber \in CatalogRuleNumbers
    /\ rule = createRule(ruleNumber)
    /\ applied = None
    /\ nextGen = None
    /\ \E row \in Rows : heap = <<row>>
    /\ callerRow = 1
    /\ grid = <<>>
    /\ calls = <<>>
    /\ nOps = 0
    /\ GenInit
    /\ ViewAbsent
    /\ CatalogInit
    /\ AppAbsent
    /\ LifeAbsent

\* the caller calls runSimulation(rule, initialRow, steps) with its array
RunSimulation(steps) ==
    /\ nOps < MaxOps
    /\ LET res == runSimulation(heap, rule, callerRow, steps)
       IN  /\ heap' = res.heap
           /\ grid' = res.grid
           /\ calls' = Append(calls,
                  [rule     |-> rule,
                   inputRef |-> callerRow,
                   input    |-> heap[callerRow],
                   steps    |-> steps,
                   result   |-> GridContents(res.heap, res.grid)])
    /\ nOps' = nOps + 1
    /\ UNCHANGED <<ruleVars, outsideRun, callerRow>>

\* the caller writes a cell of the array it holds: initialRow[i] = !initialRow[i]
MutateCallerRow(i) ==
    /\ nOps < MaxOps
    /\ i \in 1..Len(heap[callerRow])
    /\ heap' = [heap EXCEPT ![callerRow][i] = ~heap[callerRow][i]]
    /\ nOps' = nOps + 1
    /\ UNCHANGED <<ruleVars, outsideRun, callerRow, grid, calls>>

\* the caller makes a new array with the contents of the one it holds
CopyCallerRow ==
    /\ nOps < MaxOps
    /\ heap' = Append(heap, heap[callerRow])
    /\ callerRow' = Len(heap) + 1
    /\ nOps' = nOps + 1
    /\ UNCHANGED <<ruleVars, outsideRun, grid, calls>>

NextRun ==
    \/ \E steps \in 0..MaxSteps : RunSimulation(steps)
    \/ \E i \in 1..MaxRowWidth : MutateCallerRow(i)
    \/ CopyCallerRow

SpecRun == InitRun /\ [][NextRun]_vars

\* C3: runSimulation(rule, row, steps) returns a grid of exactly steps + 1
\* rows, each of the length of row.
C3_GridShape ==
    /\ \A k \in DOMAIN calls :
          /\ Len(calls[k].result) = calls[k].steps + 1
          /\ \A t \in DOMAIN calls[k].result :
                Len(calls[k].result[t]) = Len(calls[k].input)
    /\ calls # <<>> => Len(grid) = calls[Len(calls)].steps + 1

C3_Witness ==
    /\ calls # <<>>
    /\ calls[1].steps = MaxSteps
    /\ Len(calls[1].input) = MaxRowWidth
    /\ Len(grid) = MaxSteps + 1

\* the row after t applications of the rule
RECURSIVE Iterate(_, _, _)
Iterate(r, row, t) ==
    IF t = 0 THEN row ELSE Iterate(r, computeNextGeneration(r, row), t - 1)

\* C4: in the returned grid row 0 has the contents of initialRow and row t
\* is computeNextGeneration(rule, row t-1), the state after exactly t
\* applications of the rule, oldest first.
C4_RowsAreGenerations ==
    \A k \in DOMAIN calls :
        LET c == calls[k]
        IN  /\ c.result[1] = c.input
            /\ \A t \in 1..c.steps :
                  /\ c.result[t + 1] = computeNextGeneration(c.rule, c.result[t])
                  /\ c.result[t + 1] = Iterate(c.rule, c.input, t)

\* rule 110 from [false, false, true]: [false, true, true], [true, true, true]
C4_Witness ==
    /\ calls # <<>>
    /\ ruleNumber = 110
    /\ calls[1].steps = 2
    /\ calls[1].result = << <<FALSE, FALSE, TRUE>>, <<FALSE, TRUE, TRUE>>,
                            <<TRUE, TRUE, TRUE>> >>

\* C5: row 0 of the returned grid is a copy of initialRow: mutating the
\* caller's array after runSimulation returned changes no cell of the grid
\* (the grid read now is the grid that was returned).
C5_RowZeroIsCopy ==
    calls # <<>> => GridContents(heap, grid) = calls[Len(calls)].result

\* C6: two calls of runSimulation with the same rule, the same initial row
\* contents and the same step count return grids equal cell for cell.
C6_Deterministic ==
    \A j \in DOMAIN calls, k \in DOMAIN calls :
        (/\ calls[j].rule = calls[k].rule
         /\ calls[j].input = calls[k].input
         /\ calls[j].steps = calls[k].steps)
        => calls[j].result = calls[k].result

\* two calls on different array objects of equal contents
C6_Witness ==
    /\ Len(calls) >= 2
    /\ calls[1].inputRef # calls[2].inputRef
    /\ calls[1].input = calls[2].input
    /\ calls[1].steps = calls[2].steps
    /\ calls[1].steps >= 1
    /\ Len(calls[1].input) >= 1
    /\ calls[1].result = calls[2].result

----------------------------------------------------------------------------
(* SpecGen: the start conditions.  A JavaScript array is its length and    *)
(* its own integer-keyed properties.  row[idx] = v with idx >= length      *)
(* grows the array; with idx < 0 it adds a property and leaves the length. *)

\* new Array(width).fill(false)
ArrayFilled(width) ==
    [length |-> width, elems |-> [k \in 0..(width - 1) |-> FALSE]]

\* row[idx] = val
ArraySet(row, idx, val) ==
    [length |-> IF idx >= row.length THEN idx + 1 ELSE row.length,
     elems  |-> [k \in (DOMAIN row.elems) \cup {idx} |->
                    IF k = idx THEN val ELSE row.elems[k]]]

RECURSIVE ApplyWrites(_, _)
ApplyWrites(row, writes) ==
    IF writes = <<>> THEN row
    ELSE ApplyWrites(ArraySet(row, Head(writes).idx, Head(writes).val), Tail(writes))

\* Array.from({ length: width }, (_, i) => f(i))
ArrayFrom(width, f) ==
    [length |-> width, elems |-> [k \in 0..(width - 1) |-> f[k]]]

\* Math.random(): draws in [0, 1), in hundredths; one value on each side of
\* every threshold the start conditions compare with
RandomValues == {10, 30, 45, 70, 95}
RandomStreams == UNION {[1..p -> RandomValues] : p \in 1..MaxRandomPeriod}
\* the k-th draw (k = 0, 1, ...) of a stream
Draw(rnd, k) == rnd[(k % Len(rnd)) + 1]

\* the widths asked of the start conditions: the small ones, and those
\* around the offsets the start conditions use and the UI's default 1001
GenWidths == (0..MaxSmallWidth) \cup {99, 100, 101, 598, 599, 600, 601, 1001}

\* row[pos + i] = seed[i] === 1 for i = 0..seed.length-1
SeedWrites(seed, pos) ==
    [i \in 1..Len(seed) |-> [idx |-> pos + (i - 1), val |-> seed[i] = 1]]

\* the same under if (pos + i >= 0 && pos + i < width)
GuardedSeedWrites(seed, pos, width) ==
    SelectSeq(SeedWrites(seed, pos), LAMBDA w : w.idx >= 0 /\ w.idx < width)

\* a mutant of Writes_singleCell: the centre is counted from 1
Writes_singleCellOffByOne(width) ==
    << [idx |-> (width \div 2) + 1, val |-> TRUE] >>

\* row[Math.floor(width / 2)] = true
Writes_singleCell(width) ==
    << [idx |-> width \div 2, val |-> TRUE] >>

GliderSeedPatterns ==
    << <<1, 1, 1, 0, 0, 1>>, <<1, 1, 1, 1, 0, 1, 1>>, <<1, 0, 0, 1, 1, 1>> >>

RECURSIVE GliderSeedsLoop(_, _, _)
GliderSeedsLoop(s, pos, width) ==
    IF s < 5
    THEN GuardedSeedWrites(GliderSeedPatterns[(s % Len(GliderSeedPatterns)) + 1],
                           pos, width)
         \o GliderSeedsLoop(s + 1, pos + 80, width)
    ELSE <<>>

\* let pos = center - 200; 5 seeds, 80 apart, each write guarded
Writes_gliderSeeds(width) == GliderSeedsLoop(0, (width \div 2) - 200, width)

\* row[width - 1 - i] = Math.random() < 0.4 for i = 0..19, unguarded
Writes_rightEdgeSeed(width, rnd) ==
    [i \in 1..20 |-> [idx |-> width - 1 - (i - 1), val |-> Draw(rnd, i - 1) < 40]]

\* row[center - 300 + i] and row[center + 285 + i] for i = 0..14, unguarded
Writes_particleCollision(width) ==
    LET center == width \div 2
    IN  SeedWrites(<<1, 1, 1, 0, 1, 1, 0, 0, 1, 1, 1, 0, 1, 0, 1>>, center - 300)
        \o SeedWrites(<<1, 0, 1, 1, 1, 0, 0, 1, 1, 0, 1, 1, 1, 0, 1>>, center + 285)

RECURSIVE MultiCollisionLoop(_, _, _)
MultiCollisionLoop(site, spacing, width) ==
    IF site < 5
    THEN \* Math.floor(spacing * (site + 0.5))
         GuardedSeedWrites(<<1, 1, 1, 0, 1, 0, 1, 1>>,
                           (spacing * (2 * site + 1)) \div 2, width)
         \o MultiCollisionLoop(site + 1, spacing, width)
    ELSE <<>>

\* 5 sites, spacing = Math.floor(width / 6), each write guarded
Writes_multiCollision(width) == MultiCollisionLoop(0, width \div 6, width)

RECURSIVE ParticleBeamLoop(_, _)
ParticleBeamLoop(i, width) ==
    IF i < 30
    THEN LET pos == width - 50 - i * 20
         IN  (IF pos >= 0 /\ pos + 5 < width
              THEN << [idx |-> pos, val |-> TRUE], [idx |-> pos + 1, val |-> TRUE],
                      [idx |-> pos + 2, val |-> TRUE], [idx |-> pos + 4, val |-> TRUE] >>
              ELSE <<>>)
             \o ParticleBeamLoop(i + 1, width)
    ELSE <<>>

Writes_particleBeam(width) == ParticleBeamLoop(0, width)

\* const start = width - 100; if (start + i < width) row[start + i] = ...
Writes_particleGun(width) ==
    SelectSeq(
        SeedWrites(<<1, 1, 1, 1, 0, 1, 1, 1, 0, 0, 1, 0, 1, 1, 1, 1, 0, 0, 1, 1, 0, 1>>,
                   width - 100),
        LAMBDA w : w.idx < width)

\* generate(width) of a start condition built by writes into a filled array
GenerateByWrites(name, width, writes) ==
    /\ startCondition' = name
    /\ genWidth' = width
    /\ genWrites' = writes
    /\ genRow' = ApplyWrites(ArrayFilled(width), writes)
    /\ UNCHANGED outsideGen

\* generate(width) of a start condition built by Array.from
GenerateByArrayFrom(name, width, f) ==
    /\ startCondition' = name
    /\ genWidth' = width
    /\ genWrites' = <<>>
    /\ genRow' = ArrayFrom(width, f)
    /\ UNCHANGED outsideGen

SingleCell(width) ==
    /\ startCondition = "none"
    /\ GenerateByWrites("Single Cell", width, Writes_singleCell(width))

RandomFill(width, rnd) ==
    /\ startCondition = "none"
    /\ GenerateByArrayFrom("Random (50%)", width,
                           [i \in 0..(width - 1) |-> Draw(rnd, i) > 50])

RandomSparse(width, rnd) ==
    /\ startCondition = "none"
    /\ GenerateByArrayFrom("Random (10%)", width,
                           [i \in 0..(width - 1) |-> Draw(rnd, i) > 90])

Alternating(width) ==
    /\ startCondition = "none"
    /\ GenerateByArrayFrom("Alternating", width,
                           [i \in 0..(width - 1) |-> i % 2 = 0])

Random25(width, rnd) ==
    /\ startCondition = "none"
    /\ GenerateByArrayFrom("Random (25%)", width,
                           [i \in 0..(width - 1) |-> Draw(rnd, i) < 25])

GliderSeeds(width) ==
    /\ startCondition = "none"
    /\ GenerateByWrites("Glider Seeds", width, Writes_gliderSeeds(width))

RightEdgeSeed(width, rnd) ==
    /\ startCondition = "none"
    /\ GenerateByWrites("Right Edge", width, Writes_rightEdgeSeed(width, rnd))

ParticleCollision(width) ==
    /\ startCondition = "none"
    /\ GenerateByWrites("Particle Collision", width, Writes_particleCollision(width))

MultiCollision(width) ==
    /\ startCondition = "none"
    /\ GenerateByWrites("Multi Collision", width, Writes_multiCollision(width))

ParticleBeam(width) ==
    /\ startCondition = "none"
    /\ GenerateByWrites("Particle Beam", width, Writes_particleBeam(width))

ParticleGun(width) ==
    /\ startCondition = "none"
    /\ GenerateByWrites("Particle Gun", width, Writes_particleGun(width))

InitGen ==
    /\ RuleInit0
    /\ RunInit
    /\ GenInit
    /\ ViewAbsent
    /\ CatalogInit
    /\ AppAbsent
    /\ LifeAbsent

NextGen ==
    \/ \E width \in GenWidths : SingleCell(width)
    \/ \E width \in GenWidths, rnd \in RandomStreams : RandomFill(width, rnd)
    \/ \E width \in GenWidths, rnd \in RandomStreams : RandomSparse(width, rnd)
    \/ \E width \in GenWidths : Alternating(width)
    \/ \E width \in GenWidths, rnd \in RandomStreams : Random25(width, rnd)
    \/ \E width \in GenWidths : GliderSeeds(width)
    \/ \E width \in GenWidths, rnd \in RandomStreams : RightEdgeSeed(width, rnd)
    \/ \E width \in GenWidths : ParticleCollision(width)
    \/ \E width \in GenWidths : MultiCollision(width)
    \/ \E width \in GenWidths : ParticleBeam(width)
    \/ \E width \in GenWidths : ParticleGun(width)

SpecGen == InitGen /\ [][NextGen]_vars

\* C7: for every start condition of the catalog and every width >= 0,
\* generate(width) returns an array whose length is exactly width.
C7_LengthIsWidth ==
    startCondition # "none" => genRow.length = genWidth

\* C8: no start condition writes out of bounds: every index it writes into
\* the row lies in [0, width).
C8_WritesInBounds ==
    /\ \A k \in DOMAIN genWrites :
          genWrites[k].idx >= 0 /\ genWrites[k].idx < genWidth
    /\ \A idx \in DOMAIN genRow.elems : idx >= 0 /\ idx < genWidth

\* C9: for every odd width w >= 1, Single Cell's generate(w) has exactly one
\* true cell, at index floor(w/2).
C9_SingleCellCentre ==
    (startCondition = "Single Cell" /\ genWidth >= 1 /\ genWidth % 2 = 1)
    => /\ genRow.length = genWidth
       /\ DOMAIN genRow.elems = 0..(genWidth - 1)
       /\ {k \in DOMAIN genRow.elems : genRow.elems[k]} = {(genWidth - 1) \div 2}
       /\ \A k \in 0..(genWidth - 1) :
             genRow.elems[k] = (k = genWidth - 1 - k)

C9_Witness ==
    /\ startCondition = "Single Cell"
    /\ genWidth = 1001
    /\ genRow.elems[500]
    /\ Cardinality({k \in DOMAIN genRow.elems : genRow.elems[k]}) = 1

----------------------------------------------------------------------------
(* Exact fractions [n, d], d > 0, in lowest terms, for the view's numbers. *)

RECURSIVE Gcd(_, _)
Gcd(a, b) == IF b = 0 THEN a ELSE Gcd(b, a % b)

Abs(a) == IF a < 0 THEN -a ELSE a

Q(n, d) ==
    LET sn == IF d < 0 THEN -n ELSE n
        sd == Abs(d)
        g  == Gcd(Abs(sn), sd)
    IN  [n |-> sn \div g, d |-> sd \div g]

QInt(i) == [n |-> i, d |-> 1]
\* sums and comparisons over the least common denominator, products with
\* the common factors cancelled first, to keep the integers small
QAdd(a, b) ==
    LET g == Gcd(a.d, b.d)
    IN  Q(a.n * (b.d \div g) + b.n * (a.d \div g), (a.d \div g) * b.d)
QNeg(a) == [n |-> -a.n, d |-> a.d]
QSub(a, b) == QAdd(a, QNeg(b))
QMul(a, b) ==
    LET g1 == Gcd(Abs(a.n), b.d)
        g2 == Gcd(Abs(b.n), a.d)
    IN  Q((a.n \div g1) * (b.n \div g2), (a.d \div g2) * (b.d \div g1))
\* a / b for b # 0
QDiv(a, b) == QMul(a, Q(b.d, b.n))
QLe(a, b) ==
    LET g == Gcd(a.d, b.d)
    IN  a.n * (b.d \div g) <= b.n * (a.d \div g)
\* Math.min, Math.max
QMin(a, b) == IF QLe(a, b) THEN a ELSE b
QMax(a, b) == IF QLe(a, b) THEN b ELSE a

----------------------------------------------------------------------------
(* SpecView: the Renderer.  Init is the Renderer as its constructor leaves *)
(* it; every action is one public method or one event handler.             *)

\* the lower and upper limit of Math.max(0.1, Math.min(100, ...))
MinScale == Q(1, 10)
MaxScale == QInt(100)
\* Math.min(100, x) alone
ClampScaleNoFloor(x) == QMin(MaxScale, x)
\* Math.max(0.1, Math.min(100, x))
ClampScale(x) == QMax(MinScale, QMin(MaxScale, x))

\* the pages the canvas lives in: its bounding rectangle in CSS pixels and
\* window.devicePixelRatio
Environments ==
    { [left |-> 0, top |-> 0, width |-> 100, height |-> 100, dpr |-> 1],
      [left |-> 8, top |-> 16, width |-> 10, height |-> 300, dpr |-> 2] }

\* pointer positions (clientX, clientY)
Pointers == { <<50, 50>>, <<28, 76>> }

\* touch lists: one finger, two fingers
TouchLists == { <<p>> : p \in Pointers } \cup { << <<50, 50>>, <<28, 76>> >> }

\* WheelEvent.deltaY
WheelDeltas == {-100, 0, 100}

\* the grid runSimulation returns: rows after 0..steps applications
GridOf(r, row, steps) == [t \in 1..(steps + 1) |-> Iterate(r, row, t - 1)]

\* the smallest width the UI's width input allows (min="101")
UiMinWidth == 101

\* the boolean[] a start condition returned, as a row
RowOf(arr) == [i \in 1..arr.length |-> arr.elems[i - 1]]

\* grids handed to setGrid: none, one empty row, a small one, and a wide
\* one: rule 110 from Single Cell at the UI's smallest width
Grids ==
    { <<>>,
      << <<>> >>,
      GridOf(createRule(110), <<FALSE, TRUE, FALSE>>, 1),
      GridOf(createRule(110),
             RowOf(ApplyWrites(ArrayFilled(UiMinWidth), Writes_singleCell(UiMinWidth))),
             1) }

\* data[y * gridWidth + x] = row[x] ? 255 : 0, as a sequence from 1
TextureData(g, w, h) ==
    [k \in 1..(w * h) |->
        LET y == (k - 1) \div w
            x == (k - 1) % w
            row == g[y + 1]
        IN  IF x + 1 <= Len(row) /\ row[x + 1] THEN 255 ELSE 0]

\* render(): clear, then draw unless the grid is empty or there is no texture
Rendered(gw, gh, tex, v, rect) ==
    IF gw = 0 \/ gh = 0 \/ tex = None
    THEN [drawn |-> FALSE]
    ELSE [drawn |-> TRUE, resolution |-> <<rect.width, rect.height>>,
          gridSize |-> <<gw, gh>>, offset |-> <<v.offsetX, v.offsetY>>,
          scale |-> v.scale, texture |-> tex.id]

\* a render() that calls onViewChange each time
CallNotifyingOnRender(name, renders, notified) ==
    [name |-> name, renders |-> renders, notified |-> renders, arg |-> None]

\* what the last call did: its name, how often it rendered and notified the
\* onViewChange callback, and what it was given: the scale of setScale, the
\* clientX, clientY and deltaY of handleWheel's event, the number of rows
\* and the length of the first row of setGrid's grid, the clientX and clientY
\* of a mouse event, the type of the event handleMouseUp got, the touches of
\* a touch event
Call(name, renders, notified) ==
    [name |-> name, renders |-> renders, notified |-> notified, arg |-> None]

\* canvas.width = rect.width * dpr, canvas.height = rect.height * dpr
CanvasSizeOf(e) == <<e.width * e.dpr, e.height * e.dpr>>

\* setupEventListeners(): canvas.addEventListener(type, this.handler)
InstalledOnCanvas ==
    { <<"mousedown", "handleMouseDown">>, <<"mousemove", "handleMouseMove">>,
      <<"mouseup", "handleMouseUp">>, <<"mouseleave", "handleMouseUp">>,
      <<"wheel", "handleWheel">>, <<"touchstart", "handleTouchStart">>,
      <<"touchmove", "handleTouchMove">>, <<"touchend", "handleTouchEnd">> }

\* window.addEventListener('resize', () => this.resize()): the handler is an
\* arrow function the constructor keeps no reference to
InstalledOnWindow == { <<"resize", "() => this.resize()">> }

\* what destroy() hands to canvas.removeEventListener
RemovedFromCanvas ==
    { <<"mousedown", "handleMouseDown">>, <<"mousemove", "handleMouseMove">>,
      <<"mouseup", "handleMouseUp">>, <<"mouseleave", "handleMouseUp">>,
      <<"wheel", "handleWheel">>, <<"touchstart", "handleTouchStart">>,
      <<"touchmove", "handleTouchMove">>, <<"touchend", "handleTouchEnd">> }

\* the owner may call the Renderer: it is built and not yet destroyed
InUse == renderer = "built" /\ ~destroyed

\* the browser has a listener of the canvas to call for an event of the type
CanvasCalls(type, handler) == <<type, handler>> \in canvasListeners

\* new Error(message)
Error(message) == [message |-> message]

\* what the browser can give the constructor
Platforms ==
    [webgl : BOOLEAN, vertexCompiles : BOOLEAN, fragmentCompiles : BOOLEAN,
     links : BOOLEAN]

\* a browser on which everything the constructor asks for succeeds
WorkingPlatform ==
    [webgl |-> TRUE, vertexCompiles |-> TRUE, fragmentCompiles |-> TRUE,
     links |-> TRUE]

\* a constructor that does not look at LINK_STATUS
ConstructedUnlinked(p) ==
    IF ~p.webgl
    THEN [thrown |-> Error("WebGL not supported"), gl |-> {}, built |-> FALSE]
    ELSE IF ~p.vertexCompiles
    THEN [thrown |-> Error("Shader compile error"), gl |-> {}, built |-> FALSE]
    ELSE IF ~p.fragmentCompiles
    THEN [thrown |-> Error("Shader compile error"), gl |-> {"vertexShader"},
          built |-> FALSE]
    ELSE [thrown |-> None,
          gl |-> {"vertexShader", "fragmentShader", "program", "posBuffer",
                  "texBuffer"},
          built |-> TRUE]

\* the constructor up to setupEventListeners: getContext, createProgram
\* (createShader twice, link), setupBuffers, cacheUniforms.  It gives the
\* Error thrown, if any, and the WebGL objects created and not deleted.
Constructed(p) ==
    IF ~p.webgl
    THEN [thrown |-> Error("WebGL not supported"), gl |-> {}, built |-> FALSE]
    ELSE IF ~p.vertexCompiles
    THEN [thrown |-> Error("Shader compile error"), gl |-> {}, built |-> FALSE]
    ELSE IF ~p.fragmentCompiles
    THEN [thrown |-> Error("Shader compile error"), gl |-> {"vertexShader"},
          built |-> FALSE]
    ELSE IF ~p.links
    THEN [thrown |-> Error("Program link error"),
          gl |-> {"vertexShader", "fragmentShader", "program"},
          built |-> FALSE]
    ELSE [thrown |-> None,
          gl |-> {"vertexShader", "fragmentShader", "program", "posBuffer",
                  "texBuffer"},
          built |-> TRUE]

InitView ==
    /\ RuleInit0
    /\ RunInit
    /\ GenInit
    /\ CatalogInit
    /\ AppAbsent
    /\ LifeAbsent
    /\ env \in Environments
    /\ canvasSize = CanvasSizeOf(env)
    /\ gridWidth = 0
    /\ gridHeight = 0
    /\ texture = None
    /\ view = [offsetX |-> QInt(0), offsetY |-> QInt(0), scale |-> QInt(4)]
    /\ isDragging = FALSE
    /\ lastMouseX = 0
    /\ lastMouseY = 0
    /\ cursor = ""
    /\ frame = Rendered(0, 0, None, view, env)
    /\ lastCall = Call("constructor", 1, 0)
    /\ nEvents = 0
    /\ canvasListeners = InstalledOnCanvas
    /\ windowListeners = InstalledOnWindow
    /\ glObjects = Constructed(WorkingPlatform).gl
    /\ destroyed = FALSE
    /\ platform = WorkingPlatform
    /\ thrown = None
    /\ renderer = "built"
    /\ dragOrigin = None

\* setGrid(grid)
SetGrid(g) ==
    /\ InUse
    /\ nEvents < MaxEvents
    /\ nEvents' = nEvents + 1
    /\ IF Len(g) = 0
       THEN /\ gridWidth' = 0
            /\ gridHeight' = 0
            /\ lastCall' = [Call("setGrid", 0, 0) EXCEPT !.arg = <<0, 0>>]
            /\ UNCHANGED <<texture, frame, glObjects>>
       ELSE LET h   == Len(g)
                w   == Len(g[1])
                tex == [id |-> IF texture = None THEN 1 ELSE texture.id,
                        width |-> w, height |-> h, data |-> TextureData(g, w, h)]
            IN  /\ gridHeight' = h
                /\ gridWidth' = w
                /\ texture' = tex
                /\ glObjects' = glObjects \cup {"texture"}
                /\ frame' = Rendered(w, h, tex, view, env)
                /\ lastCall' = [Call("setGrid", 1, 0) EXCEPT !.arg = <<h, w>>]
    /\ UNCHANGED <<env, canvasSize, view, isDragging, lastMouseX, lastMouseY, cursor,
                   canvasListeners, windowListeners, destroyed, constructionVars, dragOrigin, outsideView>>

\* a test for a grid without rows only
GridHasNoRows(gw, gh) == gh = 0

\* centerView's test for an empty grid
GridIsEmpty(gw, gh) == gw = 0 \/ gh = 0

\* the fit without the upper limit of 10
FitScaleUncapped(canvasWidth, canvasHeight, gw, gh) ==
    QMin(QDiv(QMul(canvasWidth, Q(9, 10)), QInt(gw)),
         QDiv(QMul(canvasHeight, Q(9, 10)), QInt(gh)))

\* Math.min(scaleX, scaleY, 10) of centerView
FitScale(canvasWidth, canvasHeight, gw, gh) ==
    LET scaleX == QDiv(QMul(canvasWidth, Q(9, 10)), QInt(gw))
        scaleY == QDiv(QMul(canvasHeight, Q(9, 10)), QInt(gh))
    IN  QMin(QMin(scaleX, scaleY), QInt(10))

\* centerView()
CenterView ==
    /\ InUse
    /\ nEvents < MaxEvents
    /\ nEvents' = nEvents + 1
    /\ IF GridIsEmpty(gridWidth, gridHeight)
       THEN /\ lastCall' = Call("centerView", 0, 0)
            /\ UNCHANGED <<view, frame, dragOrigin>>
       ELSE LET canvasWidth  == QInt(env.width)
                canvasHeight == QInt(env.height)
                scale  == FitScale(canvasWidth, canvasHeight, gridWidth, gridHeight)
                scaledWidth  == QMul(QInt(gridWidth), scale)
                scaledHeight == QMul(QInt(gridHeight), scale)
                v == [offsetX |-> QDiv(QSub(canvasWidth, scaledWidth), QInt(2)),
                      offsetY |-> QDiv(QSub(canvasHeight, scaledHeight), QInt(2)),
                      scale   |-> scale]
            IN  /\ view' = v
                /\ frame' = Rendered(gridWidth, gridHeight, texture, v, env)
                /\ lastCall' = Call("centerView", 1, 1)
                /\ dragOrigin' = None
    /\ UNCHANGED <<env, canvasSize, gridWidth, gridHeight, texture, isDragging,
                   lastMouseX, lastMouseY, cursor, canvasListeners, windowListeners, glObjects,
                   destroyed, constructionVars, outsideView>>

\* a rescaling that leaves the offsets alone
RescaledAtOrigin(v, px, py, newScale) == [v EXCEPT !.scale = newScale]

\* a rescaling that moves the horizontal offset only
RescaledXOnly(v, px, py, newScale) ==
    [v EXCEPT !.scale = newScale,
              !.offsetX = QSub(px, QMul(QDiv(QSub(px, v.offsetX), v.scale), newScale))]

\* the view after rescaling to newScale around the screen point (px, py)
Rescaled(v, px, py, newScale) ==
    LET worldX == QDiv(QSub(px, v.offsetX), v.scale)
        worldY == QDiv(QSub(py, v.offsetY), v.scale)
    IN  [offsetX |-> QSub(px, QMul(worldX, newScale)),
         offsetY |-> QSub(py, QMul(worldY, newScale)),
         scale   |-> newScale]

\* scales asked of setScale: below, inside and above the limits
ScaleRequests == { Q(1, 10000), QInt(2), QInt(1000) }

\* setScale(scale)
SetScale(scale) ==
    /\ InUse
    /\ nEvents < MaxEvents
    /\ nEvents' = nEvents + 1
    /\ LET centerX == Q(env.width, 2)
           centerY == Q(env.height, 2)
           v == Rescaled(view, centerX, centerY, ClampScale(scale))
       IN  /\ view' = v
           /\ frame' = Rendered(gridWidth, gridHeight, texture, v, env)
    /\ lastCall' = [Call("setScale", 1, 1) EXCEPT !.arg = scale]
    /\ dragOrigin' = None
    /\ UNCHANGED <<env, canvasSize, gridWidth, gridHeight, texture, isDragging,
                   lastMouseX, lastMouseY, cursor, canvasListeners, windowListeners, glObjects,
                   destroyed, constructionVars, outsideView>>

\* the zoom-in button: setScale(view.scale * 1.3)
ZoomIn ==
    /\ view # None
    /\ SetScale(QMul(view.scale, Q(13, 10)))

\* the zoom-out button: setScale(view.scale / 1.3)
ZoomOut ==
    /\ view # None
    /\ SetScale(QDiv(view.scale, Q(13, 10)))

\* handleWheel(e)
HandleWheel(clientX, clientY, deltaY) ==
    /\ CanvasCalls("wheel", "handleWheel")
    /\ nEvents < MaxEvents
    /\ nEvents' = nEvents + 1
    /\ LET mouseX == QInt(clientX - env.left)
           mouseY == QInt(clientY - env.top)
           zoomFactor == IF deltaY > 0 THEN Q(9, 10) ELSE Q(11, 10)
           newScale == ClampScale(QMul(view.scale, zoomFactor))
           v == Rescaled(view, mouseX, mouseY, newScale)
       IN  /\ view' = v
           /\ frame' = Rendered(gridWidth, gridHeight, texture, v, env)
    /\ lastCall' = [Call("handleWheel", 1, 1) EXCEPT !.arg = <<clientX, clientY, deltaY>>]
    /\ dragOrigin' = None
    /\ UNCHANGED <<env, canvasSize, gridWidth, gridHeight, texture, isDragging,
                   lastMouseX, lastMouseY, cursor, canvasListeners, windowListeners, glObjects,
                   destroyed, constructionVars, outsideView>>

\* handleMouseDown(e)
HandleMouseDown(clientX, clientY) ==
    /\ CanvasCalls("mousedown", "handleMouseDown")
    /\ nEvents < MaxEvents
    /\ nEvents' = nEvents + 1
    /\ isDragging' = TRUE
    /\ lastMouseX' = clientX
    /\ lastMouseY' = clientY
    /\ cursor' = "grabbing"
    /\ dragOrigin' = [pointer |-> <<clientX, clientY>>,
                      offset  |-> <<view.offsetX, view.offsetY>>]
    /\ lastCall' = [Call("handleMouseDown", 0, 0) EXCEPT !.arg = <<clientX, clientY>>]
    /\ UNCHANGED <<env, canvasSize, gridWidth, gridHeight, texture, view, frame,
                   canvasListeners, windowListeners, glObjects,
                   destroyed, constructionVars, outsideView>>

\* a move handler that pans whatever the drag state
MoveNeverIgnored(dragging) == FALSE

\* if (!this.isDragging) return, of handleMouseMove and handleTouchMove
MoveIgnored(dragging) == ~dragging

\* a pan that forgets to record the pointer
PanWithoutAnchor(name, clientX, clientY, given) ==
    LET v == [view EXCEPT !.offsetX = QAdd(@, QInt(clientX - lastMouseX)),
                          !.offsetY = QAdd(@, QInt(clientY - lastMouseY))]
    IN  /\ view' = v
        /\ UNCHANGED <<lastMouseX, lastMouseY>>
        /\ frame' = Rendered(gridWidth, gridHeight, texture, v, env)
        /\ lastCall' = [Call(name, 1, 1) EXCEPT !.arg = given]

\* the pan shared by handleMouseMove and handleTouchMove, for an event `given`
Pan(name, clientX, clientY, given) ==
    LET dx == clientX - lastMouseX
        dy == clientY - lastMouseY
        v  == [view EXCEPT !.offsetX = QAdd(@, QInt(dx)),
                           !.offsetY = QAdd(@, QInt(dy))]
    IN  /\ view' = v
        /\ lastMouseX' = clientX
        /\ lastMouseY' = clientY
        /\ frame' = Rendered(gridWidth, gridHeight, texture, v, env)
        /\ lastCall' = [Call(name, 1, 1) EXCEPT !.arg = given]

\* handleMouseMove(e)
HandleMouseMove(clientX, clientY) ==
    /\ CanvasCalls("mousemove", "handleMouseMove")
    /\ nEvents < MaxEvents
    /\ nEvents' = nEvents + 1
    /\ IF MoveIgnored(isDragging)
       THEN /\ lastCall' = [Call("handleMouseMove", 0, 0) EXCEPT !.arg = <<clientX, clientY>>]
            /\ UNCHANGED <<view, lastMouseX, lastMouseY, frame>>
       ELSE Pan("handleMouseMove", clientX, clientY, <<clientX, clientY>>)
    /\ UNCHANGED <<env, canvasSize, gridWidth, gridHeight, texture, isDragging,
                   cursor, canvasListeners, windowListeners, glObjects,
                   destroyed, constructionVars, dragOrigin, outsideView>>

\* handleMouseUp(), the listener of mouseup and of mouseleave, for an event
\* of one of these types
HandleMouseUp(type) ==
    /\ CanvasCalls(type, "handleMouseUp")
    /\ nEvents < MaxEvents
    /\ nEvents' = nEvents + 1
    /\ isDragging' = FALSE
    /\ cursor' = "grab"
    /\ lastCall' = [Call("handleMouseUp", 0, 0) EXCEPT !.arg = type]
    /\ UNCHANGED <<env, canvasSize, gridWidth, gridHeight, texture, view,
                   lastMouseX, lastMouseY, frame, canvasListeners, windowListeners, glObjects,
                   destroyed, constructionVars, dragOrigin, outsideView>>

\* handleTouchStart(e)
HandleTouchStart(touches) ==
    /\ CanvasCalls("touchstart", "handleTouchStart")
    /\ nEvents < MaxEvents
    /\ nEvents' = nEvents + 1
    /\ IF Len(touches) = 1
       THEN /\ isDragging' = TRUE
            /\ lastMouseX' = touches[1][1]
            /\ lastMouseY' = touches[1][2]
            /\ dragOrigin' = [pointer |-> touches[1],
                              offset  |-> <<view.offsetX, view.offsetY>>]
       ELSE UNCHANGED <<isDragging, lastMouseX, lastMouseY, dragOrigin>>
    /\ lastCall' = [Call("handleTouchStart", 0, 0) EXCEPT !.arg = touches]
    /\ UNCHANGED <<env, canvasSize, gridWidth, gridHeight, texture, view, cursor,
                   frame, canvasListeners, windowListeners, glObjects,
                   destroyed, constructionVars, outsideView>>

\* handleTouchMove(e)
HandleTouchMove(touches) ==
    /\ CanvasCalls("touchmove", "handleTouchMove")
    /\ nEvents < MaxEvents
    /\ nEvents' = nEvents + 1
    /\ IF MoveIgnored(isDragging) \/ Len(touches) # 1
       THEN /\ lastCall' = [Call("handleTouchMove", 0, 0) EXCEPT !.arg = touches]
            /\ UNCHANGED <<view, lastMouseX, lastMouseY, frame>>
       ELSE Pan("handleTouchMove", touches[1][1], touches[1][2], touches)
    /\ UNCHANGED <<env, canvasSize, gridWidth, gridHeight, texture, isDragging,
                   cursor, canvasListeners, windowListeners, glObjects,
                   destroyed, constructionVars, dragOrigin, outsideView>>

\* handleTouchEnd()
HandleTouchEnd ==
    /\ CanvasCalls("touchend", "handleTouchEnd")
    /\ nEvents < MaxEvents
    /\ nEvents' = nEvents + 1
    /\ isDragging' = FALSE
    /\ lastCall' = Call("handleTouchEnd", 0, 0)
    /\ UNCHANGED <<env, canvasSize, gridWidth, gridHeight, texture, view,
                   lastMouseX, lastMouseY, cursor, frame, canvasListeners, windowListeners, glObjects,
                   destroyed, constructionVars, dragOrigin, outsideView>>

\* what render() leaves on the canvas.  With the program and the texture
\* deleted, whether the draw call still paints is up to the WebGL
\* implementation.
RenderOutcomes(gw, gh, tex, v, rect, live) ==
    IF "program" \in live
    THEN { Rendered(gw, gh, tex, v, rect) }
    ELSE { [drawn |-> FALSE], Rendered(gw, gh, tex, v, rect) }

\* the page changes the canvas's box and the window fires 'resize': every
\* listener of it runs resize()
Resize(e) ==
    /\ nEvents < MaxEvents
    /\ env' = e
    /\ IF \E l \in windowListeners : l[1] = "resize"
       THEN /\ nEvents' = nEvents + 1
            /\ canvasSize' = CanvasSizeOf(e)
            /\ frame' \in RenderOutcomes(gridWidth, gridHeight, texture, view, e, glObjects)
            /\ lastCall' = Call("resize", 1, 0)
       ELSE UNCHANGED <<nEvents, canvasSize, frame, lastCall>>
    /\ UNCHANGED <<gridWidth, gridHeight, texture, view, isDragging, lastMouseX,
                   lastMouseY, cursor, canvasListeners, windowListeners, glObjects,
                   destroyed, constructionVars, dragOrigin, outsideView>>

\* destroy()
Destroy ==
    /\ InUse
    /\ nEvents < MaxEvents
    /\ nEvents' = nEvents + 1
    /\ canvasListeners' = canvasListeners \ RemovedFromCanvas
    /\ glObjects' = glObjects \ {"texture", "program"}
    /\ destroyed' = TRUE
    /\ lastCall' = Call("destroy", 0, 0)
    /\ UNCHANGED <<env, canvasSize, gridWidth, gridHeight, texture, view, isDragging,
                   lastMouseX, lastMouseY, cursor, frame, windowListeners, constructionVars, dragOrigin, outsideView>>

\* render()
Render ==
    /\ InUse
    /\ nEvents < MaxEvents
    /\ nEvents' = nEvents + 1
    /\ frame' = Rendered(gridWidth, gridHeight, texture, view, env)
    /\ lastCall' = Call("render", 1, 0)
    /\ UNCHANGED <<env, canvasSize, gridWidth, gridHeight, texture, view, isDragging,
                   lastMouseX, lastMouseY, cursor, canvasListeners, windowListeners, glObjects,
                   destroyed, constructionVars, dragOrigin, outsideView>>

NextView ==
    \/ \E g \in Grids : SetGrid(g)
    \/ CenterView
    \/ \E scale \in ScaleRequests : SetScale(scale)
    \/ ZoomIn
    \/ ZoomOut
    \/ \E p \in Pointers, deltaY \in WheelDeltas : HandleWheel(p[1], p[2], deltaY)
    \/ \E p \in Pointers : HandleMouseDown(p[1], p[2])
    \/ \E p \in Pointers : HandleMouseMove(p[1], p[2])
    \/ \E type \in {"mouseup", "mouseleave"} : HandleMouseUp(type)
    \/ \E touches \in TouchLists : HandleTouchStart(touches)
    \/ \E touches \in TouchLists : HandleTouchMove(touches)
    \/ HandleTouchEnd
    \/ \E e \in Environments : Resize(e)
    \/ Render
    \/ Destroy

SpecView == InitView /\ [][NextView]_vars

\* C10: in every state reachable after constructing a Renderer, through any
\* sequence of setGrid, centerView, setScale, wheel-zoom and pan operations,
\* the view scale lies in the closed interval [0.1, 100].
C10_ScaleInRange ==
    /\ QLe(Q(1, 10), view.scale)
    /\ QLe(view.scale, QInt(100))

\* centerView is the only operation that takes the scale out of [0.1, 100]
C10_OnlyCenterViewLeavesRange ==
    [][(C10_ScaleInRange /\ ~C10_ScaleInRange') => lastCall'.name = "centerView"]_vars

\* C11: after setScale(s) the view scale is s clamped to [0.1, 100]: 100 for
\* every s >= 100, 0.1 for every s <= 0.1, and s itself otherwise.
C11_SetScaleClamps ==
    lastCall.name = "setScale" =>
        LET s == lastCall.arg
        IN  view.scale = IF QLe(QInt(100), s) THEN QInt(100)
                         ELSE IF QLe(s, Q(1, 10)) THEN Q(1, 10)
                         ELSE s

\* setScale(0.0001) has just returned, after an earlier change of the view
C11_Witness ==
    /\ lastCall.name = "setScale"
    /\ lastCall.arg = Q(1, 10000)
    /\ view.scale = Q(1, 10)
    /\ nEvents > 1

\* the grid coordinate shown at the screen point (px, py) under view v
WorldUnder(v, px, py) ==
    <<QDiv(QSub(px, v.offsetX), v.scale), QDiv(QSub(py, v.offsetY), v.scale)>>

\* C12: setScale pivots around the canvas centre: for every prior view and
\* every requested scale, clamped ones included, the grid coordinate
\* (centre - offset) / scale under the canvas centre pixel is the same after
\* setScale as before it, on both axes.
C12_SetScalePivotsAtCentre ==
    [][(lastCall'.name = "setScale" /\ nEvents' # nEvents) =>
          LET centerX == Q(env.width, 2)
              centerY == Q(env.height, 2)
          IN  WorldUnder(view', centerX, centerY) = WorldUnder(view, centerX, centerY)]_vars

\* setScale(1000) has just returned, clamped to 100, and the point under the
\* centre of the canvas is not the grid's origin
C12_Witness ==
    /\ lastCall.name = "setScale"
    /\ lastCall.arg = QInt(1000)
    /\ view.scale = QInt(100)
    /\ WorldUnder(view, Q(env.width, 2), Q(env.height, 2)) # <<QInt(0), QInt(0)>>
    /\ view.offsetX # view.offsetY

\* C13: a wheel event zooms anchored at the pointer: the grid coordinate
\* (pointer - offset) / scale under the pointer is the same after the event as
\* before it, the new scale depends on the old scale and the wheel direction
\* alone, so that the event is handled alike while idle and while dragging,
\* and the drag state and the recorded drag anchor are unchanged.
C13_WheelZoomsAtPointer ==
    [][(lastCall'.name = "handleWheel" /\ nEvents' # nEvents) =>
          LET e      == lastCall'.arg
              mouseX == QInt(e[1] - env.left)
              mouseY == QInt(e[2] - env.top)
              factor == IF e[3] > 0 THEN Q(9, 10) ELSE Q(11, 10)
              wanted == QMul(view.scale, factor)
          IN  /\ WorldUnder(view', mouseX, mouseY) = WorldUnder(view, mouseX, mouseY)
              /\ view'.scale = IF QLe(QInt(100), wanted) THEN QInt(100)
                               ELSE IF QLe(wanted, Q(1, 10)) THEN Q(1, 10)
                               ELSE wanted
              /\ isDragging' = isDragging
              /\ lastMouseX' = lastMouseX
              /\ lastMouseY' = lastMouseY]_vars

\* a wheel event has just been handled in the middle of a drag, away from
\* the drag's anchor
C13_Witness ==
    /\ lastCall.name = "handleWheel"
    /\ isDragging
    /\ <<lastCall.arg[1], lastCall.arg[2]>> # <<lastMouseX, lastMouseY>>
    /\ view.offsetX # view.offsetY

\* C14: destroy() removes every event listener the renderer installed (the
\* canvas mouse, wheel and touch listeners and the window resize listener of
\* the constructor): after destroy() no listener registered by the renderer
\* remains, so that no later canvas or window event invokes renderer code.
C14_DestroyRemovesEveryListener ==
    destroyed => /\ canvasListeners = {}
                 /\ windowListeners = {}

\* destroy() does remove every listener of the canvas
C14_CanvasListenersRemoved ==
    destroyed => canvasListeners = {}

\* a window resize after destroy() ran resize() and render()
C14_ResizeAfterDestroy ==
    /\ destroyed
    /\ lastCall.name = "resize"

\* C15: setGrid with an empty grid (zero rows, or rows of zero width) sets the
\* tracked dimensions to width 0 and height 0 and issues no draw call.
C15_EmptyGridClearsDimensions ==
    (/\ lastCall.name = "setGrid"
     /\ (lastCall.arg[1] = 0 \/ lastCall.arg[2] = 0)) =>
        /\ gridWidth = 0
        /\ gridHeight = 0
        /\ (lastCall.renders = 0 \/ ~frame.drawn)

\* once both tracked dimensions are 0, render() and centerView() leave them 0
C15_EmptyStaysEmpty ==
    [][(/\ gridWidth = 0
        /\ gridHeight = 0
        /\ lastCall'.name \in {"render", "centerView"}) =>
           (gridWidth' = 0 /\ gridHeight' = 0)]_vars

\* setGrid([[]]) has returned: a grid of one row of zero width
C15_ZeroWidthRowTracked ==
    /\ lastCall.name = "setGrid"
    /\ lastCall.arg = <<1, 0>>
    /\ gridWidth = 0
    /\ gridHeight = 1

\* C16: centerView() is a no-op when the grid is empty (tracked width or
\* height 0): offsetX, offsetY and scale are unchanged and the view-changed
\* callback is not invoked.
C16_CenterViewNoOpOnEmptyGrid ==
    [][(/\ lastCall'.name = "centerView"
        /\ nEvents' # nEvents
        /\ (gridWidth = 0 \/ gridHeight = 0)) =>
           /\ view' = view
           /\ lastCall'.notified = 0]_vars

\* centerView() has returned on a grid of zero-width rows, with a view that
\* is no longer the initial one
C16_Witness ==
    /\ lastCall.name = "centerView"
    /\ gridWidth = 0
    /\ gridHeight = 1
    /\ view.scale # QInt(4)

\* C17: for a non-empty grid, centerView() sets one scale equal to
\* min(0.9 * canvasWidth / gridWidth, 0.9 * canvasHeight / gridHeight, 10) and
\* offsetX = (canvasWidth - gridWidth * scale) / 2, offsetY = (canvasHeight -
\* gridHeight * scale) / 2, so that the scaled grid covers at most 90% of the
\* canvas on either axis.
C17_CenterViewFitsAndCentres ==
    (/\ lastCall.name = "centerView"
     /\ gridWidth # 0
     /\ gridHeight # 0) =>
        LET cw == env.width
            ch == env.height
            sx == Q(9 * cw, 10 * gridWidth)
            sy == Q(9 * ch, 10 * gridHeight)
            m  == IF QLe(sx, sy) THEN sx ELSE sy
            sc == IF QLe(m, QInt(10)) THEN m ELSE QInt(10)
        IN  /\ view.scale = sc
            /\ QAdd(QMul(QInt(2), view.offsetX), QMul(QInt(gridWidth), sc)) = QInt(cw)
            /\ QAdd(QMul(QInt(2), view.offsetY), QMul(QInt(gridHeight), sc)) = QInt(ch)
            /\ QLe(QMul(QInt(gridWidth), view.scale), Q(9 * cw, 10))
            /\ QLe(QMul(QInt(gridHeight), view.scale), Q(9 * ch, 10))

\* centerView() has fitted the wide grid: the limit of 10 does not bind and
\* the grid fills 90% of the canvas's width
C17_Witness ==
    /\ lastCall.name = "centerView"
    /\ gridWidth = UiMinWidth
    /\ gridHeight = 2
    /\ QMul(QInt(gridWidth), view.scale) = Q(9 * env.width, 10)

\* C18: render() changes no renderer state: the view, the tracked grid
\* dimensions, the texture handle and the drag state are the same after
\* render() as before, it never invokes the view-changed callback, and a
\* render() that follows a render() leaves the canvas as the first one did.
C18_RenderIsPure ==
    [][(lastCall'.name = "render" /\ nEvents' # nEvents) =>
          /\ view' = view
          /\ gridWidth' = gridWidth
          /\ gridHeight' = gridHeight
          /\ texture' = texture
          /\ isDragging' = isDragging
          /\ lastMouseX' = lastMouseX
          /\ lastMouseY' = lastMouseY
          /\ lastCall'.notified = 0
          /\ (lastCall.name = "render" => frame' = frame)]_vars

\* render() has drawn a grid in the middle of a drag
C18_Witness ==
    /\ lastCall.name = "render"
    /\ frame.drawn
    /\ isDragging
    /\ texture # None

\* C22: the interaction state is a two-state machine Idle / Dragging: it
\* starts Idle; mousedown, or a touchstart with exactly one touch, moves it to
\* Dragging and records the pointer position as anchor; mouseup, mouseleave
\* and touchend move it to Idle; a mousemove or touchmove received while Idle
\* changes neither the view nor the anchor and triggers no render and no
\* callback; nothing else changes the state.
C22_DragStateMachine ==
    /\ ~isDragging
    /\ [][nEvents' # nEvents =>
            LET call   == lastCall'
                anchor == <<lastMouseX, lastMouseY>>
            IN  /\ isDragging' \in BOOLEAN
                /\ call.name = "handleMouseDown" =>
                      (isDragging' /\ anchor' = call.arg)
                /\ call.name = "handleTouchStart" =>
                      IF Len(call.arg) = 1
                      THEN isDragging' /\ anchor' = call.arg[1]
                      ELSE isDragging' = isDragging /\ anchor' = anchor
                /\ call.name \in {"handleMouseUp", "handleTouchEnd"} => ~isDragging'
                /\ (call.name \in {"handleMouseMove", "handleTouchMove"} /\ ~isDragging) =>
                      /\ ~isDragging'
                      /\ view' = view
                      /\ anchor' = anchor
                      /\ frame' = frame
                      /\ call.renders = 0
                      /\ call.notified = 0
                /\ call.name \notin {"handleMouseDown", "handleTouchStart",
                                     "handleMouseUp", "handleTouchEnd"} =>
                      isDragging' = isDragging]_vars

\* after a drag that began at one pointer position and has ended, a mouse
\* move at another position has been received while Idle
C22_Witness ==
    /\ lastCall.name = "handleMouseMove"
    /\ ~isDragging
    /\ lastCall.renders = 0
    /\ <<lastMouseX, lastMouseY>> \in Pointers
    /\ lastCall.arg # <<lastMouseX, lastMouseY>>

\* C23: while Dragging, each pointer move adds exactly (pointer - last
\* recorded pointer) to (offsetX, offsetY), leaves the scale unchanged,
\* records the pointer and invokes the view-changed callback once; hence over
\* a drag from a pointer down at A through any moves ending at B the offsets
\* change by B - A in total.
C23_PanFollowsPointer ==
    /\ [](dragOrigin # None =>
            /\ QSub(view.offsetX, dragOrigin.offset[1])
                  = QInt(lastMouseX - dragOrigin.pointer[1])
            /\ QSub(view.offsetY, dragOrigin.offset[2])
                  = QInt(lastMouseY - dragOrigin.pointer[2]))
    /\ [][(/\ nEvents' # nEvents
           /\ isDragging
           /\ \/ lastCall'.name = "handleMouseMove"
              \/ lastCall'.name = "handleTouchMove" /\ Len(lastCall'.arg) = 1) =>
              LET to == IF lastCall'.name = "handleMouseMove"
                        THEN lastCall'.arg ELSE lastCall'.arg[1]
              IN  /\ view'.offsetX = QAdd(view.offsetX, QInt(to[1] - lastMouseX))
                  /\ view'.offsetY = QAdd(view.offsetY, QInt(to[2] - lastMouseY))
                  /\ view'.scale = view.scale
                  /\ <<lastMouseX', lastMouseY'>> = to
                  /\ lastCall'.notified = 1
                  /\ isDragging']_vars

\* a drag has been moved from its pointer down at A to another position B
C23_Witness ==
    /\ isDragging
    /\ dragOrigin # None
    /\ lastCall.name \in {"handleMouseMove", "handleTouchMove"}
    /\ lastCall.notified = 1
    /\ <<lastMouseX, lastMouseY>> # dragOrigin.pointer
    /\ <<view.offsetX, view.offsetY>> # dragOrigin.offset

\* C26: whenever setGrid is called with a non-empty grid whose width or
\* height differs from that of the texture in place, a new texture object
\* replaces the old one; with the same dimensions the object in place is kept
\* and the whole grid is uploaded into it.
C26_TextureRecreatedOnResize ==
    [][ (nEvents' # nEvents /\ lastCall'.name = "setGrid" /\ lastCall'.renders = 1
         /\ texture # None)
        => /\ texture'.data = TextureData(CHOOSE g \in Grids :
                                              /\ Len(g) = texture'.height
                                              /\ Len(g) > 0
                                              /\ Len(g[1]) = texture'.width,
                                          texture'.width, texture'.height)
           /\ IF texture'.width # texture.width \/ texture'.height # texture.height
              THEN texture'.id # texture.id
              ELSE texture'.id = texture.id ]_vars

----------------------------------------------------------------------------
(* SpecConstruct: the Renderer from before new Renderer(canvas) on, in a   *)
(* browser that may lack WebGL or fail to compile or link the shaders.     *)

\* new Renderer(canvas, onViewChange)
Construct ==
    /\ lastCall = None
    /\ LET c == Constructed(platform)
       IN  /\ thrown' = c.thrown
           /\ glObjects' = c.gl
           /\ IF c.built
              THEN LET v == [offsetX |-> QInt(0), offsetY |-> QInt(0),
                             scale |-> QInt(4)]
                   IN  /\ renderer' = "built"
                       /\ view' = v
                       /\ canvasListeners' = InstalledOnCanvas
                       /\ windowListeners' = InstalledOnWindow
                       /\ canvasSize' = CanvasSizeOf(env)
                       /\ frame' = Rendered(gridWidth, gridHeight, texture, v, env)
                       /\ lastCall' = Call("constructor", 1, 0)
              ELSE /\ renderer' = "none"
                   /\ lastCall' = Call("constructor", 0, 0)
                   /\ UNCHANGED <<view, canvasListeners, windowListeners,
                                  canvasSize, frame>>
    /\ UNCHANGED <<env, gridWidth, gridHeight, texture, isDragging, lastMouseX,
                   lastMouseY, cursor, nEvents, destroyed, platform, dragOrigin,
                   outsideView>>

\* the page and the browser before the constructor runs
InitConstruct ==
    /\ RuleInit0
    /\ RunInit
    /\ GenInit
    /\ CatalogInit
    /\ AppAbsent
    /\ LifeAbsent
    /\ env \in Environments
    /\ platform \in Platforms
    /\ canvasSize = None
    /\ gridWidth = 0
    /\ gridHeight = 0
    /\ texture = None
    /\ view = None
    /\ isDragging = FALSE
    /\ lastMouseX = 0
    /\ lastMouseY = 0
    /\ cursor = ""
    /\ frame = None
    /\ lastCall = None
    /\ nEvents = 0
    /\ canvasListeners = {}
    /\ windowListeners = {}
    /\ glObjects = {}
    /\ destroyed = FALSE
    /\ thrown = None
    /\ renderer = "none"
    /\ dragOrigin = None

NextConstruct ==
    \/ Construct
    \/ NextView

SpecConstruct == InitConstruct /\ [][NextConstruct]_vars

\* C20: construction fails loudly: if the WebGL context is unavailable, or a
\* shader fails to compile, or the program fails to link, the constructor
\* throws and no renderer is produced; no listener of the failed renderer
\* is registered, nothing has been rendered and no handler of it runs.
C20_ConstructionFailsLoudly ==
    (/\ lastCall # None
     /\ (\/ ~platform.webgl
         \/ ~platform.vertexCompiles
         \/ ~platform.fragmentCompiles
         \/ ~platform.links)) =>
        /\ thrown # None
        /\ renderer = "none"
        /\ canvasListeners = {}
        /\ windowListeners = {}
        /\ lastCall = Call("constructor", 0, 0)
        /\ frame = None
        /\ nEvents = 0

\* the constructor has thrown because the program did not link, leaving the
\* shaders and the program behind, in the page of device pixel ratio 2
C20_Witness ==
    /\ thrown = Error("Program link error")
    /\ renderer = "none"
    /\ "program" \in glObjects
    /\ env.dpr = 2

----------------------------------------------------------------------------
(* SpecCatalog: the predefined simulations and the lookup by id.           *)

\* the value of an absent result
Undefined == [undefined |-> TRUE]

\* one entry of the catalog; the start condition is given by its name
Simulation(id, name, ruleNumberOf, startConditionName, defaultSteps) ==
    [id |-> id, name |-> name, rule |-> createRule(ruleNumberOf),
     startCondition |-> startConditionName, defaultSteps |-> defaultSteps]

\* export const simulations: Simulation[]
simulations ==
    <<
       Simulation("rule110-gliders", "Rule 110 - Gliders", 110, "Random (25%)", 800),
       Simulation("rule110-seeds", "Rule 110 - Glider Seeds", 110, "Glider Seeds", 1000),
       Simulation("rule110-collision", "Rule 110 - Particle Collision", 110, "Particle Collision", 1200),
       Simulation("rule110-beam", "Rule 110 - Particle Beam", 110, "Particle Beam", 800),
       Simulation("rule110-gun", "Rule 110 - Particle Gun", 110, "Particle Gun", 1000),
       Simulation("rule110-multi", "Rule 110 - Multi Collision", 110, "Multi Collision", 800),
       Simulation("rule110-edge", "Rule 110 - Edge Start", 110, "Right Edge", 600),
       Simulation("rule110-single", "Rule 110 - Single Cell", 110, "Single Cell", 500),
       Simulation("rule110-random", "Rule 110 - Dense Random", 110, "Random (50%)", 500),
       Simulation("rule30-single", "Rule 30 - Single Cell", 30, "Single Cell", 500),
       Simulation("rule90-single", "Rule 90 - Single Cell", 90, "Single Cell", 500),
       Simulation("rule184-random", "Rule 184 - Traffic Flow", 184, "Random (10%)", 500),
       Simulation("rule54-single", "Rule 54 - Single Cell", 54, "Single Cell", 500),
       Simulation("rule150-alternating", "Rule 150 - Alternating", 150, "Alternating", 500),
       Simulation("rule22-single", "Rule 22 - Single Cell", 22, "Single Cell", 500)
    >>

\* a lookup that falls back to the first entry
getSimulationOrFirst(id) ==
    LET hits == { i \in 1..Len(simulations) : simulations[i].id = id }
    IN  IF hits = {} THEN simulations[1]
        ELSE simulations[CHOOSE i \in hits : \A j \in hits : i <= j]

\* simulations.find((s) => s.id === id): the first entry with the id
getSimulation(id) ==
    LET hits == { i \in 1..Len(simulations) : simulations[i].id = id }
    IN  IF hits = {} THEN Undefined
        ELSE simulations[CHOOSE i \in hits : \A j \in hits : i <= j]

\* ids asked for that are in no entry: empty, a prefix of an id, an id in
\* upper case, an id followed by a blank
UnknownIds == { "", "rule110", "RULE110-GLIDERS", "rule30-single " }

\* ids handed to getSimulation
LookupIds == { simulations[i].id : i \in 1..Len(simulations) } \cup UnknownIds

\* a caller calls getSimulation(id)
GetSimulation(id) ==
    /\ Len(lookups) < MaxLookups
    /\ lookups' = Append(lookups, [id |-> id, result |-> getSimulation(id)])
    /\ UNCHANGED outsideCatalog

InitCatalog ==
    /\ RuleInit0
    /\ RunInit
    /\ GenInit
    /\ ViewAbsent
    /\ CatalogInit
    /\ AppAbsent
    /\ LifeAbsent

NextCatalog == \E id \in LookupIds : GetSimulation(id)

SpecCatalog == InitCatalog /\ [][NextCatalog]_vars

\* C19: getSimulation(id) returns, for the id of a catalog entry, the entry
\* with that id (the ids of the catalog being pairwise distinct, it returns s
\* for s.id, for every entry s), and undefined for any other id.
C19_GetSimulationFindsOrUndefined ==
    /\ \A i, j \in 1..Len(simulations) :
          simulations[i].id = simulations[j].id => i = j
    /\ \A k \in 1..Len(lookups) :
          LET l == lookups[k]
          IN  /\ \A i \in 1..Len(simulations) :
                    simulations[i].id = l.id => l.result = simulations[i]
              /\ (\A i \in 1..Len(simulations) : simulations[i].id # l.id)
                    => l.result = Undefined

\* the last entry of the catalog has been looked up and found, and an id
\* that differs from an entry's by its case has been looked up
C19_Witness ==
    /\ \E k \in 1..Len(lookups) :
          /\ lookups[k].id = "rule22-single"
          /\ lookups[k].result = simulations[Len(simulations)]
    /\ \E k \in 1..Len(lookups) :
          /\ lookups[k].id = "RULE110-GLIDERS"
          /\ lookups[k].result = Undefined

----------------------------------------------------------------------------
(* SpecWrap: createRule on rule numbers of 256 and more, up to numbers     *)
(* beyond the int32 range.  Such a number is written in two limbs,         *)
(* hi * 65536 + lo with 0 <= lo < 65536, as TLC's integers end at 2^31 - 1. *)

\* the limbs of hi * 65536 + lo
Wide(hi, lo) == [hi |-> hi, lo |-> lo]

\* a conversion to int32 that saturates at 2^31 - 1 instead of wrapping
ToInt32Saturating(n) ==
    IF n.hi >= 32768 THEN 2147483647 ELSE n.hi * 65536 + n.lo

\* ToInt32 of JavaScript, applied by >> to its left operand: the low 32 bits
\* of the number, read as a signed integer
ToInt32(n) ==
    LET h == n.hi % 65536
    IN  (IF h >= 32768 THEN h - 65536 ELSE h) * 65536 + n.lo

\* createRule(ruleNumber) for a rule number given in limbs
createRuleWide(n) ==
    [number  |-> n,
     name    |-> <<"Rule", n>>,
     pattern |-> [i \in 0..7 |-> ShiftRightAnd1(ToInt32(n), i) = 1]]

\* rule numbers from 256 on: 256, 366 = 256 + 110, 511, 65536 + 110,
\* 2^31 - 1, 2^31 + 110, 2^32 - 1, 2^32 + 30, 2^47 - 1
WideRuleNumbers ==
    { Wide(0, 256), Wide(0, 366), Wide(0, 511), Wide(1, 110),
      Wide(32767, 65535), Wide(32768, 110), Wide(65535, 65535),
      Wide(65536, 30), Wide(2147483647, 65535) }

InitWrap ==
    /\ ruleNumber \in WideRuleNumbers
    /\ rule = NoRule
    /\ applied = None
    /\ nextGen = None
    /\ RunInit
    /\ GenInit
    /\ ViewAbsent
    /\ CatalogInit
    /\ AppAbsent
    /\ LifeAbsent

CreateRuleWide ==
    /\ rule = NoRule
    /\ rule' = createRuleWide(ruleNumber)
    /\ UNCHANGED <<ruleNumber, applied, nextGen, outsideRule>>

NextWrap ==
    \/ CreateRuleWide
    \/ \E l \in BOOLEAN, c \in BOOLEAN, r \in BOOLEAN : ApplyRule(l, c, r)
    \/ \E row \in Rows : ComputeNextGeneration(row)

SpecWrap == InitWrap /\ [][NextWrap]_vars

\* C21: for every integer n >= 256, createRule(n) does not fail and its
\* pattern is the pattern of createRule(n mod 256): rule numbers wrap to 8
\* bits, and the number determines the pattern.
C21_RuleNumberWraps ==
    rule # NoRule =>
        LET low == createRule(ruleNumber.lo % 256)
        IN  /\ rule.number = ruleNumber
            /\ DOMAIN rule.pattern = 0..7
            /\ rule.pattern = low.pattern
            /\ applied # None =>
                  applied.result
                     = applyRule(low, applied.left, applied.center, applied.right)
            /\ nextGen # None =>
                  nextGen.nextRow = computeNextGeneration(low, nextGen.currentRow)

\* a rule made from 2^31 + 110, which is negative as an int32, has been
\* applied and is rule 110
C21_Witness ==
    /\ ruleNumber = Wide(32768, 110)
    /\ rule # NoRule
    /\ rule.pattern = createRule(110).pattern
    /\ applied # None

----------------------------------------------------------------------------
(* SpecApp: the page's CellularAutomataApp.  Init is the app as its        *)
(* constructor leaves it: the template rendered, the Renderer built, the   *)
(* first simulation loaded.  The actions are the change of the select, the *)
(* user's edits of the two inputs, the Run click, the Enter key in either  *)
(* input, and the callback runCurrentSimulation hands to setTimeout.  The  *)
(* value of an input is a sequence of characters.                          *)

Digits == <<"0", "1", "2", "3", "4", "5", "6", "7", "8", "9">>
IsDigit(c) == \E i \in 1..Len(Digits) : Digits[i] = c
DigitValue(c) == (CHOOSE i \in 1..Len(Digits) : Digits[i] = c) - 1

RECURSIVE SkipBlanks(_)
SkipBlanks(text) ==
    IF text # <<>> /\ Head(text) = " " THEN SkipBlanks(Tail(text)) ELSE text

\* the value of the longest prefix of digits, acc being that of those read
RECURSIVE DigitsValue(_, _)
DigitsValue(text, acc) ==
    IF text # <<>> /\ IsDigit(Head(text))
    THEN DigitsValue(Tail(text), acc * 10 + DigitValue(Head(text)))
    ELSE acc

\* parseInt(text, 10): blanks, a sign, then digits up to the first character
\* that is none; NaN without a digit
parseInt(text) ==
    LET t == SkipBlanks(text)
        negative == t # <<>> /\ Head(t) = "-"
        body == IF t # <<>> /\ Head(t) \in {"-", "+"} THEN Tail(t) ELSE t
    IN  IF body = <<>> \/ ~IsDigit(Head(body)) THEN NaN
        ELSE Num((IF negative THEN -1 ELSE 1) * DigitsValue(body, 0))

\* value || fallback for a parseInt result: NaN and 0 are falsy
OrElse(parsed, fallback) ==
    IF parsed = NaN \/ parsed = Num(0) THEN fallback ELSE parsed.num

RECURSIVE DigitsOf(_)
DigitsOf(n) ==
    IF n < 10 THEN <<Digits[n + 1]>> ELSE DigitsOf(n \div 10) \o <<Digits[(n % 10) + 1]>>

\* Number.prototype.toString() of an integer
toString(n) == IF n < 0 THEN <<"-">> \o DigitsOf(-n) ELSE DigitsOf(n)

\* a % b of JavaScript for b > 0: the sign is that of a
JsRem(a, b) == IF a >= 0 THEN a % b ELSE -((-a) % b)

\* <input type="number">: whether the text is a valid floating-point number
\* (an optional "-", digits, an optional fraction, an optional exponent)
RECURSIVE FloatFrom(_, _)
FloatFrom(text, at) ==
    IF text = <<>> THEN at \in {"int", "frac", "exp"}
    ELSE LET c == Head(text)
             to == CASE at = "start" /\ c = "-" -> "sign"
                      [] at \in {"start", "sign", "int"} /\ IsDigit(c) -> "int"
                      [] at \in {"start", "sign", "int"} /\ c = "." -> "dot"
                      [] at \in {"dot", "frac"} /\ IsDigit(c) -> "frac"
                      [] at \in {"int", "frac"} /\ c \in {"e", "E"} -> "e"
                      [] at = "e" /\ c \in {"+", "-"} -> "esign"
                      [] at \in {"e", "esign", "exp"} /\ IsDigit(c) -> "exp"
                      [] OTHER -> "no"
         IN  to # "no" /\ FloatFrom(Tail(text), to)

\* the value an <input type="number"> holds for what was typed or assigned:
\* the text if it is a valid floating-point number, else the empty string
Sanitized(text) == IF FloatFrom(text, "start") THEN text ELSE <<>>

\* what the user types into #steps-input
StepsTexts == { <<>>, <<"x">>, <<"0">>, <<"-", "5">>, <<"2", "0", "0", "0", "0">> }

\* what the user types into #width-input
WidthTexts ==
    { <<>>, <<"a", "b", "c">>, <<"0">>, <<"-", "5">>, <<"4">>, <<"5", "0", "0", "3">> }

\* description of the catalog's entries, in the catalog's order
descriptions ==
    << "Best for seeing gliders emerge from sparse random start",
       "Specific patterns that produce interacting gliders",
       "Two particle sources creating head-on collisions",
       "Stream of particles moving left, interacting",
       "Pattern that emits periodic glider streams",
       "Multiple collision sites across the grid",
       "Gliders emerging from right edge, moving left",
       "Classic triangular growth pattern",
       "Rule 110 with 50% random - chaotic interaction",
       "Chaotic rule used for randomness generation",
       "Produces Sierpinski triangle pattern",
       "Models traffic flow and particle dynamics",
       "Complex behavior with triangular patterns",
       "XOR-based rule with interesting patterns",
       "Creates nested triangular structures" >>

\* simulation.description
DescriptionOf(simulation) ==
    descriptions[CHOOSE i \in 1..Len(simulations) : simulations[i].id = simulation.id]

\* the values the select is changed to: entries whose start condition is
\* built by Array.from, by unguarded writes and by one write, and an id of no
\* entry
AppIds == { "rule110-gliders", "rule110-collision", "rule30-single", "rule110" }

\* a loadSimulation that falls back to the first entry of the catalog
loadSimulationOrFirst(ui, id) ==
    LET simulation == getSimulationOrFirst(id)
    IN  [currentSimulation |-> simulation,
         simTitle |-> simulation.name,
         simDescription |-> DescriptionOf(simulation),
         stepsInput |-> Sanitized(toString(simulation.defaultSteps))]

\* loadSimulation(id) on ui = the current simulation, title, description and
\* steps input
loadSimulation(ui, id) ==
    LET simulation == getSimulation(id)
    IN  IF simulation = Undefined THEN ui
        ELSE [currentSimulation |-> simulation,
              simTitle |-> simulation.name,
              simDescription |-> DescriptionOf(simulation),
              stepsInput |-> Sanitized(toString(simulation.defaultSteps))]

\* the start conditions that build their row by Array.from({ length: width })
ByArrayFrom == {"Random (50%)", "Random (10%)", "Alternating", "Random (25%)"}

\* the indexed writes of a start condition that fills new Array(width)
WritesOf(name, width, rnd) ==
    CASE name = "Single Cell" -> Writes_singleCell(width)
      [] name = "Glider Seeds" -> Writes_gliderSeeds(width)
      [] name = "Right Edge" -> Writes_rightEdgeSeed(width, rnd)
      [] name = "Particle Collision" -> Writes_particleCollision(width)
      [] name = "Multi Collision" -> Writes_multiCollision(width)
      [] name = "Particle Beam" -> Writes_particleBeam(width)
      [] name = "Particle Gun" -> Writes_particleGun(width)

\* the length of an array of the given length after the writes
\* row[idx] = val: a write at idx >= length grows the array to idx + 1
RECURSIVE LengthAfter(_, _)
LengthAfter(length, writes) ==
    IF writes = <<>> THEN length
    ELSE LengthAfter(IF Head(writes).idx >= length THEN Head(writes).idx + 1
                     ELSE length,
                     Tail(writes))

\* startCondition.generate(width): the error thrown, or the length of the row
\* returned.  Array.from takes a negative length for 0; new Array(width)
\* throws a RangeError on a negative width.
generate(name, width, rnd) ==
    IF name \in ByArrayFrom
    THEN [thrown |-> None, length |-> IF width < 0 THEN 0 ELSE width]
    ELSE IF width < 0
         THEN [thrown |-> Error("RangeError: Invalid array length"), length |-> 0]
         ELSE [thrown |-> None,
               length |-> LengthAfter(width, WritesOf(name, width, rnd))]

\* centerView() on a grid that is not empty: the view it sets
CenteredView(rect, gw, gh) ==
    LET canvasWidth  == QInt(rect.width)
        canvasHeight == QInt(rect.height)
        scale  == FitScale(canvasWidth, canvasHeight, gw, gh)
    IN  [offsetX |-> QDiv(QSub(canvasWidth, QMul(QInt(gw), scale)), QInt(2)),
         offsetY |-> QDiv(QSub(canvasHeight, QMul(QInt(gh), scale)), QInt(2)),
         scale   |-> scale]

\* scale.toFixed(1), in tenths: the nearest tenth, a half rounded up
ToFixed1(scale) == (20 * scale.n + scale.d) \div (2 * scale.d)

\* the text updateGridInfo() writes, as its three numbers
GridInfoText(gw, gh, v) == [width |-> gw, height |-> gh, zoom |-> ToFixed1(v.scale)]

\* the page the app runs in: a canvas of 100 x 100 CSS pixels
AppEnvironment == [left |-> 0, top |-> 0, width |-> 100, height |-> 100, dpr |-> 1]

\* what is selected and typed at this moment
Selected(simulation, width, steps) ==
    [simulation |-> simulation.id, width |-> width, steps |-> steps]

InitApp ==
    /\ RuleInit0
    /\ RunInit
    /\ GenInit
    /\ CatalogInit
    /\ LifeAbsent
    \* new Renderer(canvas, () => this.updateGridInfo())
    /\ env = AppEnvironment
    /\ canvasSize = CanvasSizeOf(env)
    /\ gridWidth = 0
    /\ gridHeight = 0
    /\ texture = None
    /\ view = [offsetX |-> QInt(0), offsetY |-> QInt(0), scale |-> QInt(4)]
    /\ isDragging = FALSE
    /\ lastMouseX = 0
    /\ lastMouseY = 0
    /\ cursor = ""
    /\ frame = Rendered(0, 0, None, view, env)
    /\ lastCall = Call("constructor", 1, 0)
    /\ nEvents = 0
    /\ canvasListeners = InstalledOnCanvas
    /\ windowListeners = InstalledOnWindow
    /\ glObjects = Constructed(WorkingPlatform).gl
    /\ destroyed = FALSE
    /\ platform = WorkingPlatform
    /\ thrown = None
    /\ renderer = "built"
    /\ dragOrigin = None
    \* render(), then this.loadSimulation(simulations[0]!.id)
    /\ LET ui == loadSimulation([currentSimulation |-> None,
                                 simTitle |-> "Select a simulation",
                                 simDescription |->
                                     "Choose a simulation from the dropdown and click Run.",
                                 stepsInput |-> <<"5", "0", "0">>],
                                simulations[1].id)
       IN  /\ currentSimulation = ui.currentSimulation
           /\ simTitle = ui.simTitle
           /\ simDescription = ui.simDescription
           /\ stepsInput = ui.stepsInput
    /\ widthInput = <<"1", "0", "0", "1">>
    /\ appGridWidth = 1001
    /\ currentGrid = NoGrid
    /\ runBtn = [disabled |-> FALSE, textContent |-> "Run"]
    /\ timers = <<>>
    /\ gridInfo = None
    /\ lastTask = None
    /\ lastLoaded = [id |-> simulations[1].id]
    /\ appOps = [selects |-> 0, edits |-> 0, runs |-> 0]

rendererVars == <<env, canvasSize, gridWidth, gridHeight, texture, view, isDragging,
                  lastMouseX, lastMouseY, cursor, frame, lastCall, nEvents,
                  canvasListeners, windowListeners, glObjects, destroyed,
                  platform, thrown, renderer, dragOrigin>>

\* the select's change listener: this.loadSimulation(select.value)
SelectChange(id) ==
    /\ appOps.selects < MaxSelects
    /\ appOps' = [appOps EXCEPT !.selects = @ + 1]
    /\ lastLoaded' = [id |-> id]
    /\ LET ui == loadSimulation([currentSimulation |-> currentSimulation,
                                 simTitle |-> simTitle,
                                 simDescription |-> simDescription,
                                 stepsInput |-> stepsInput], id)
       IN  /\ currentSimulation' = ui.currentSimulation
           /\ simTitle' = ui.simTitle
           /\ simDescription' = ui.simDescription
           /\ stepsInput' = ui.stepsInput
    /\ UNCHANGED <<widthInput, appGridWidth, currentGrid, runBtn, timers, gridInfo,
                   lastTask, rendererVars, outsideApp>>

\* the user edits #steps-input
EditSteps(text) ==
    /\ appOps.edits < MaxEdits
    /\ appOps' = [appOps EXCEPT !.edits = @ + 1]
    /\ stepsInput' = Sanitized(text)
    /\ UNCHANGED <<currentSimulation, simTitle, simDescription, widthInput,
                   appGridWidth, currentGrid, runBtn, timers, gridInfo, lastTask,
                   lastLoaded, rendererVars, outsideApp>>

\* the user edits #width-input
EditWidth(text) ==
    /\ appOps.edits < MaxEdits
    /\ appOps' = [appOps EXCEPT !.edits = @ + 1]
    /\ widthInput' = Sanitized(text)
    /\ UNCHANGED <<currentSimulation, simTitle, simDescription, stepsInput,
                   appGridWidth, currentGrid, runBtn, timers, gridInfo, lastTask,
                   lastLoaded, rendererVars, outsideApp>>

\* runCurrentSimulation(), up to and including the call of setTimeout
RunCurrentSimulation ==
    /\ appOps.runs < MaxRuns
    /\ appOps' = [appOps EXCEPT !.runs = @ + 1]
    /\ IF currentSimulation = None
       THEN UNCHANGED <<widthInput, appGridWidth, runBtn, timers>>
       ELSE LET steps  == OrElse(parseInt(stepsInput), 500)
                typed  == OrElse(parseInt(widthInput), 1001)
                isEven == JsRem(typed, 2) = 0
                width  == IF isEven THEN typed + 1 ELSE typed
            IN  /\ appGridWidth' = width
                /\ widthInput' = IF isEven THEN Sanitized(toString(width)) ELSE widthInput
                /\ runBtn' = [disabled |-> TRUE, textContent |-> "Computing..."]
                /\ timers' = Append(timers,
                                    [steps |-> steps,
                                     at |-> Selected(currentSimulation, width, steps)])
    /\ UNCHANGED <<currentSimulation, simTitle, simDescription, stepsInput,
                   currentGrid, gridInfo, lastTask, lastLoaded, rendererVars, outsideApp>>

\* a click on #run-btn; a disabled button receives none
ClickRun ==
    /\ ~runBtn.disabled
    /\ RunCurrentSimulation

\* a keydown in #steps-input or #width-input: Enter runs, other keys do not
PressKey(input, key) ==
    /\ input \in {"steps-input", "width-input"}
    /\ key = "Enter"
    /\ RunCurrentSimulation

\* the callback handed to setTimeout(..., 10) runs.  Callbacks of one delay
\* run in the order they were set.
FireTimer ==
    /\ timers # <<>>
    \* Math.random() decides the cells of a random row, not its length
    /\ LET rnd    == CHOOSE stream \in RandomStreams : TRUE
           steps  == Head(timers).steps
           name   == currentSimulation.startCondition
           initialRow == generate(name, appGridWidth, rnd)
           rows   == IF steps > 0 THEN steps + 1 ELSE 1
           cols   == initialRow.length
           term   == [rows |-> rows, cols |-> cols,
                      rule |-> currentSimulation.rule.number,
                      startCondition |-> name,
                      width |-> appGridWidth, steps |-> steps]
           tex    == [id |-> IF texture = None THEN 1 ELSE texture.id,
                      width |-> cols, height |-> rows, data |-> term]
           v      == IF GridIsEmpty(cols, rows) THEN view
                     ELSE CenteredView(env, cols, rows)
       IN  /\ timers' = Tail(timers)
           /\ lastTask' = [at |-> Head(timers).at,
                           used |-> Selected(currentSimulation, appGridWidth, steps),
                           thrown |-> initialRow.thrown,
                           ran |-> initialRow.thrown = None]
           /\ IF initialRow.thrown # None
              THEN UNCHANGED <<currentGrid, runBtn, gridInfo, gridWidth, gridHeight,
                               texture, glObjects, view, frame, lastCall, nEvents,
                               dragOrigin>>
              ELSE /\ currentGrid' = term
                   \* this.renderer?.setGrid(this.currentGrid)
                   /\ gridHeight' = rows
                   /\ gridWidth' = cols
                   /\ texture' = tex
                   /\ glObjects' = glObjects \cup {"texture"}
                   \* this.renderer?.centerView()
                   /\ view' = v
                   /\ frame' = Rendered(cols, rows, tex, v, env)
                   /\ lastCall' = IF GridIsEmpty(cols, rows)
                                  THEN Call("centerView", 0, 0)
                                  ELSE Call("centerView", 1, 1)
                   /\ dragOrigin' = IF GridIsEmpty(cols, rows) THEN dragOrigin ELSE None
                   /\ nEvents' = nEvents + 2
                   \* updateGridInfo(), from centerView and once more
                   /\ gridInfo' = IF cols > 0 THEN GridInfoText(cols, rows, v)
                                  ELSE gridInfo
                   /\ runBtn' = [disabled |-> FALSE, textContent |-> "Run"]
    /\ UNCHANGED <<currentSimulation, simTitle, simDescription, stepsInput, widthInput,
                   appGridWidth, lastLoaded, appOps, env, canvasSize, isDragging,
                   lastMouseX, lastMouseY, cursor, canvasListeners, windowListeners,
                   destroyed, constructionVars, outsideApp>>

NextApp ==
    \/ \E id \in AppIds : SelectChange(id)
    \/ \E text \in StepsTexts : EditSteps(text)
    \/ \E text \in WidthTexts : EditWidth(text)
    \/ ClickRun
    \/ \E input \in {"steps-input", "width-input"}, key \in {"Enter", "a"} :
          PressKey(input, key)
    \/ FireTimer

SpecApp == InitApp /\ [][NextApp]_vars

\* the first pending callback leaves the queue: of the steps of NextApp,
\* those of FireTimer and no other
TimerRuns == timers # <<>> /\ timers' = Tail(timers)

\* the event loop runs every callback handed to setTimeout
SpecAppLive == SpecApp /\ WF_timers(TimerRuns)

\* C24: the width handed to StartCondition.generate lies in [101, 5001] and
\* the step count handed to runSimulation in [1, 10000], whatever was typed
\* into the width and steps inputs.
C24_InputsBounded ==
    lastTask # None
    => /\ lastTask.used.width \in 101..5001
       /\ lastTask.ran => lastTask.used.steps \in 1..10000

\* C25: no width or steps input makes a run throw: the callback of every run
\* triggered completes without an exception.
C25_NoExceptionFromInput ==
    lastTask # None => lastTask.thrown = None

\* C27: loadSimulation with an id that is in no catalog entry leaves the
\* current simulation, the title and description shown and the steps input
\* as they were.
C27_UnknownIdLeavesUi ==
    [][ (appOps'.selects # appOps.selects /\ getSimulation(lastLoaded'.id) = Undefined)
        => UNCHANGED <<currentSimulation, simTitle, simDescription, stepsInput>> ]_vars

\* an id of no entry was loaded after the user had typed into the steps
\* input: the first simulation is still the current one, and the input still
\* holds what was typed, not the simulation's default
C27_Witness ==
    /\ lastLoaded # None
    /\ getSimulation(lastLoaded.id) = Undefined
    /\ appOps.selects > 0
    /\ appOps.edits > 0
    /\ currentSimulation = simulations[1]
    /\ simTitle = simulations[1].name
    /\ stepsInput # toString(simulations[1].defaultSteps)

\* C28: the grid a callback produces is computed from the simulation (rule
\* and start condition), the width and the step count that were selected
\* when its run was triggered, whatever select changes and run triggers came
\* between the trigger and the callback.
C28_GridFromSelectionAtTrigger ==
    (lastTask # None /\ lastTask.ran)
    => LET at == lastTask.at
           simulation == getSimulation(at.simulation)
       IN  /\ lastTask.used = at
           /\ currentGrid.rule = simulation.rule.number
           /\ currentGrid.startCondition = simulation.startCondition
           /\ currentGrid.width = at.width
           /\ currentGrid.steps = at.steps

\* C29: whenever a run trigger has disabled the Run button and set its label
\* to "Computing...", the button is eventually enabled again with the label
\* "Run".
C29_ButtonReenabled ==
    (runBtn.disabled /\ runBtn.textContent = "Computing...")
        ~> (~runBtn.disabled /\ runBtn.textContent = "Run")

----------------------------------------------------------------------------
(* SpecLife: the GameOfLife class.  Init is a GameOfLife as its constructor *)
(* leaves it, for every width, height and depth up to the bounds and every *)
(* grid Math.random() can fill.  A grid is a sequence of rows, a layer of  *)
(* the volume is a grid; the code never writes into a grid once it is in   *)
(* the volume, so layers are kept as values.                               *)

\* the grids of height rows of width cells
LifeGrids(width, height) == [1..height -> [1..width -> BOOLEAN]]

\* createEmptyGrid(width, height)
createEmptyGrid(width, height) == [y \in 1..height |-> [x \in 1..width |-> FALSE]]

\* the offsets (dx, dy) of the eight neighbours
NeighbourOffsets == { <<dx, dy>> \in {-1, 0, 1} \X {-1, 0, 1} : ~(dx = 0 /\ dy = 0) }

\* countNeighbors(grid, x, y), x and y counted from 0: wrapping boundaries
countNeighbors(g, x, y) ==
    LET height == Len(g)
        width  == Len(g[1])
    IN  Cardinality({ o \in NeighbourOffsets :
                        g[((y + o[2] + height) % height) + 1]
                         [((x + o[1] + width) % width) + 1] })

\* whether step(grid, chance) can return next: a live cell lives on with 2
\* or 3 neighbours; a dead cell is born with 3, or where Math.random() <
\* chance, which no draw is for chance 0 and every draw is for chance 1
CanStepTo(g, chance, next) ==
    \A y \in 1..Len(g) : \A x \in 1..Len(g[1]) :
        LET neighbors == countNeighbors(g, x - 1, y - 1)
        IN  IF g[y][x] THEN next[y][x] = (neighbors \in {2, 3})
            ELSE IF neighbors = 3 THEN next[y][x]
            ELSE IF chance = 0 THEN ~next[y][x]
            ELSE IF chance >= 100 THEN next[y][x]
            ELSE TRUE

\* the grids step(grid, chance) can return
Steps(g, chance) ==
    { next \in LifeGrids(Len(g[1]), Len(g)) : CanStepTo(g, chance, next) }

\* the length Array.from({ length: n }) gives its array: NaN and negative
\* numbers count as 0
ToLength(n) == IF n = NaN THEN 0 ELSE IF n.num < 0 THEN 0 ELSE n.num

\* Array.from({ length: depth }, () => createEmptyGrid(width, height)), then
\* volume[0] = grid: an array of no element grows to one
VolumeOf(width, height, depth, first) ==
    [z \in 1..(IF ToLength(depth) < 1 THEN 1 ELSE ToLength(depth)) |->
        IF z = 1 THEN first ELSE createEmptyGrid(width, height)]

\* the layers after the loop of tick() and volume[0] = nextGrid.  The loop
\* runs z from depth - 1 while z > 0, which NaN - 1 never is.
Shifted(layers, depth, nextGrid) ==
    [z \in 1..Len(layers) |->
        IF z = 1 THEN nextGrid
        ELSE IF depth # NaN /\ z <= depth.num THEN layers[z - 1]
        ELSE layers[z]]

\* the depths a GameOfLife is constructed with: numbers, and the NaN that
\* parseInt gives for an empty or non-numeric z
LifeDepths == { Num(d) : d \in 0..MaxLifeDepth } \cup {NaN}

\* Math.max(0, Math.min(1, chance)), in hundredths
ClampChance(chance) == IF chance < 0 THEN 0 ELSE IF chance > 100 THEN 100 ELSE chance

\* the chances handed to setSpawnChance, in hundredths
SpawnChances == {-10, 0, 50, 100, 150}

LifeCall(name, error) == [name |-> name, thrown |-> error]

\* new GameOfLife(width, height, depth, fillRatio)
InitLife ==
    /\ RuleInit0
    /\ RunInit
    /\ GenInit
    /\ ViewAbsent
    /\ CatalogInit
    /\ AppAbsent
    /\ lifeWidth \in 0..MaxLifeSize
    /\ lifeHeight \in 0..MaxLifeSize
    /\ lifeDepth \in LifeDepths
    /\ \E first \in LifeGrids(lifeWidth, lifeHeight) :
          volume = VolumeOf(lifeWidth, lifeHeight, lifeDepth, first)
    /\ generation = 0
    /\ spawnChance = 0
    /\ lifeCall = LifeCall("constructor", None)
    /\ lifeOps = 0

\* setSpawnChance(chance)
SetSpawnChance(chance) ==
    /\ lifeOps < MaxLifeOps
    /\ lifeOps' = lifeOps + 1
    /\ spawnChance' = ClampChance(chance)
    /\ lifeCall' = LifeCall("setSpawnChance", None)
    /\ UNCHANGED <<lifeWidth, lifeHeight, lifeDepth, volume, generation, outsideLife>>

\* tick().  step() reads grid[0].length: on a grid of no row that is a
\* TypeError, thrown after generation++ and before the layers are shifted.
Tick ==
    /\ lifeOps < MaxLifeOps
    /\ lifeOps' = lifeOps + 1
    /\ generation' = generation + 1
    /\ IF Len(volume[1]) = 0
       THEN /\ lifeCall' = LifeCall("tick", Error("TypeError: grid[0] is undefined"))
            /\ UNCHANGED volume
       ELSE /\ lifeCall' = LifeCall("tick", None)
            /\ \E nextGrid \in Steps(volume[1], spawnChance) :
                  volume' = Shifted(volume, lifeDepth, nextGrid)
    /\ UNCHANGED <<lifeWidth, lifeHeight, lifeDepth, spawnChance, outsideLife>>

\* reset(fillRatio)
Reset ==
    /\ lifeOps < MaxLifeOps
    /\ lifeOps' = lifeOps + 1
    /\ generation' = 0
    /\ \E first \in LifeGrids(lifeWidth, lifeHeight) :
          volume' = VolumeOf(lifeWidth, lifeHeight, lifeDepth, first)
    /\ lifeCall' = LifeCall("reset", None)
    /\ UNCHANGED <<lifeWidth, lifeHeight, lifeDepth, spawnChance, outsideLife>>

NextLife ==
    \/ \E chance \in SpawnChances : SetSpawnChance(chance)
    \/ Tick
    \/ Reset

SpecLife == InitLife /\ [][NextLife]_vars

\* C30: GameOfLife keeps a history of fixed depth: after the constructor and
\* any sequence of tick() and reset() the volume has exactly depth layers.
C30_VolumeHasDepthLayers ==
    lifeDepth = Num(Len(volume))

\* the volume of a GameOfLife of depth 0 or NaN holds one layer, from the
\* constructor on and after tick() and reset()
C30_WithoutDepthOneLayer ==
    lifeDepth \in {Num(0), NaN} => Len(volume) = 1

\* with a depth of 1 or more the volume has depth layers
C30_DepthKeptFromOne ==
    (lifeDepth # NaN /\ lifeDepth.num >= 1) => Len(volume) = lifeDepth.num

\* a tick() that does not throw adds 1 to the generation, makes layer 0 a
\* step of the former layer 0 and layer z, 0 < z < depth, the former layer
\* z - 1; reset() sets the generation to 0 and every layer but layer 0 to
\* all-dead
C30_TickShiftsResetClears ==
    [][ /\ (lifeOps' # lifeOps /\ lifeCall' = LifeCall("tick", None))
           => /\ generation' = generation + 1
              /\ CanStepTo(volume[1], spawnChance, volume'[1])
              /\ Len(volume') = Len(volume)
              /\ \A z \in 2..ToLength(lifeDepth) : volume'[z] = volume[z - 1]
        /\ (lifeOps' # lifeOps /\ lifeCall'.name = "reset")
           => /\ generation' = 0
              /\ \A z \in 2..Len(volume') :
                    volume'[z] = createEmptyGrid(lifeWidth, lifeHeight) ]_vars

\* a tick() on a GameOfLife of height 0 throws and leaves the layers as
\* they were, the generation counted
C30_TickThrowsWithoutRows ==
    [][ (lifeOps' # lifeOps /\ lifeCall'.name = "tick" /\ lifeHeight = 0)
        => /\ lifeCall'.thrown # None
           /\ volume' = volume
           /\ generation' = generation + 1 ]_vars

====
